---- MODULE Spec2Model ----
(***************************************************************************)
(* Word-bingo session server: BingoCard / BingoGame / Session, the unified *)
(* and the admin-side connection handlers, and the relay multiplexer.      *)
(* Text is modelled as sequences of one-character strings so that trim()   *)
(* and toLowerCase() are computed, not assumed.                            *)
(***************************************************************************)
EXTENDS Integers, Sequences, FiniteSets, TLC

\* ------------------------------------------------------------------ bounds
\* number of values randomUUID() may hand out in one behaviour
MaxUuid == 5
\* number of cards dealt in one behaviour when BingoGame is driven directly
MaxCards == 3

\* evaluates v once and hands the value to Op (a LET whose body uses the name
\* several times would recompute it at every use)
Bind(v, Op(_)) == Op(v)

\* ------------------------------------------------------------------ text

\* String.prototype.toLowerCase, on the alphabet the model uses
LowerChar(c) ==
  CASE c = "A" -> "a"
    [] c = "B" -> "b"
    [] c = "E" -> "e"
    [] c = "F" -> "f"
    [] c = "R" -> "r"
    [] OTHER -> c

toLowerCase(s) == [i \in 1..Len(s) |-> LowerChar(s[i])]

IsSpace(c) == c = " "

RECURSIVE TrimLeft(_)
TrimLeft(s) == IF s # <<>> /\ IsSpace(Head(s)) THEN TrimLeft(Tail(s)) ELSE s

RECURSIVE TrimRight(_)
TrimRight(s) ==
  IF s # <<>> /\ IsSpace(s[Len(s)]) THEN TrimRight(SubSeq(s, 1, Len(s) - 1)) ELSE s

\* String.prototype.trim
trim(s) == TrimRight(TrimLeft(s))

\* decimal digits of a counter value, used to print generated identifiers
Digits == <<"0", "1", "2", "3", "4", "5", "6", "7", "8", "9">>

RECURSIVE Decimal(_)
Decimal(n) == IF n < 10 THEN <<Digits[n + 1]>> ELSE Decimal(n \div 10) \o <<Digits[(n % 10) + 1]>>

\* crypto.randomUUID(): the n-th identifier handed out; distinct n give
\* distinct identifiers
randomUUID(n) == <<"#">> \o Decimal(n)

\* ------------------------------------------------------------------ inputs
Letters == <<"a", "b", "c", "d", "e", "f", "g", "h", "i", "j", "k", "l", "m",
             "n", "o", "p", "q", "r", "s", "t", "u", "v", "w", "x", "y">>

\* a word list with padding, a case-variant duplicate and a blank entry:
\* " A ", "a", " ", "b", ..., "y"  (25 unique words after cleaning)
sampleBuzzwords ==
  << <<" ", "A", " ">>, <<"a">>, <<" ">> >> \o [i \in 1..24 |-> <<Letters[i + 1]>>]

\* the same list cut to 23 unique words
shortWordList == SubSeq(sampleBuzzwords, 1, 25)

FREE == <<"F", "R", "E", "E">>

\* ------------------------------------------------------------------ BingoCard
\* the cleaning loop of BingoCard.generate and of the BingoGame constructor:
\* trim, drop empty, deduplicate case-insensitively keeping the first
RECURSIVE CleanFrom(_, _, _)
CleanFrom(wordList, seen, cleaned) ==
  IF wordList = <<>> THEN cleaned
  ELSE LET trimmed == trim(Head(wordList))
           lower == toLowerCase(trimmed)
       IN IF Len(trimmed) = 0 THEN CleanFrom(Tail(wordList), seen, cleaned)
          ELSE IF lower \in seen THEN CleanFrom(Tail(wordList), seen, cleaned)
          ELSE CleanFrom(Tail(wordList), seen \cup {lower}, Append(cleaned, trimmed))

Clean(wordList) == CleanFrom(wordList, {}, <<>>)

\* Math.floor(Math.random() * (i + 1)) for the draw at index i of the random
\* stream number seed: always a value in 0..i
RandomIndex(seed, i) == (seed * i) % (i + 1)

\* Fisher-Yates over a 0-based array arr (a function on 0..n-1), from index i
\* down to 1
RECURSIVE ShuffleFrom(_, _, _)
ShuffleFrom(arr, i, seed) ==
  IF i <= 0 THEN arr
  ELSE LET j == RandomIndex(seed, i)
       IN ShuffleFrom([arr EXCEPT ![i] = arr[j], ![j] = arr[i]], i - 1, seed)

Shuffle(cleaned, seed) ==
  LET arr == [k \in 0..(Len(cleaned) - 1) |-> cleaned[k + 1]]
  IN ShuffleFrom(arr, Len(cleaned) - 1, seed)

NoCard == [id |-> <<>>]

\* the messages of the errors thrown; the interpolated parts are left out
TooFewWords == "Word list must contain at least 24 unique words"

\* BingoCard.generate: uuid is the identifier randomUUID() returns for the card
BingoCard_generate(playerId, wordList, seed, uuid) ==
  Bind(Clean(wordList), LAMBDA cleaned :
    IF Len(cleaned) < 24 THEN [threw |-> TRUE, card |-> NoCard, message |-> TooFewWords]
    ELSE Bind(Shuffle(cleaned, seed), LAMBDA shuffled :
      \* selected = shuffled.slice(0, 24); idx runs over it in row-major
      \* order and is not advanced at the centre
      LET idxOf(r, c) == IF r * 5 + c < 12 THEN r * 5 + c ELSE r * 5 + c - 1
          grid == [r \in 0..4 |-> [c \in 0..4 |->
                     IF r = 2 /\ c = 2 THEN FREE ELSE shuffled[idxOf(r, c)]]]
          marked == [r \in 0..4 |-> [c \in 0..4 |-> r = 2 /\ c = 2]]
      IN [threw |-> FALSE,
          card |-> [id |-> uuid, playerId |-> playerId, grid |-> grid, marked |-> marked]]))

\* BingoCard.markWord: first matching cell in row-major order
BingoCard_markWord(card, word) ==
  Bind(toLowerCase(trim(word)), LAMBDA normalized :
    Bind({k \in 0..24 : toLowerCase(card.grid[k \div 5][k % 5]) = normalized}, LAMBDA hits :
      IF hits = {} THEN [card |-> card, marked |-> FALSE]
      ELSE Bind(CHOOSE h \in hits : \A h2 \in hits : h <= h2, LAMBDA k :
             [card |-> [card EXCEPT !.marked[k \div 5][k % 5] = TRUE], marked |-> TRUE])))

NoPattern == [type |-> "none"]

\* a scan that looks at the columns before the rows
getWinningPattern_columnsFirst(card) ==
  LET m == card.marked
      rows == {r \in 0..4 : m[r][0] /\ m[r][1] /\ m[r][2] /\ m[r][3] /\ m[r][4]}
      cols == {c \in 0..4 : m[0][c] /\ m[1][c] /\ m[2][c] /\ m[3][c] /\ m[4][c]}
  IN IF cols # {} THEN [type |-> "vertical", col |-> CHOOSE c \in cols : \A c2 \in cols : c <= c2]
     ELSE IF rows # {} THEN [type |-> "horizontal", row |-> CHOOSE r \in rows : \A r2 \in rows : r <= r2]
     ELSE IF m[0][0] /\ m[1][1] /\ m[2][2] /\ m[3][3] /\ m[4][4]
       THEN [type |-> "diagonal", direction |-> "tl-br"]
     ELSE IF m[0][4] /\ m[1][3] /\ m[2][2] /\ m[3][1] /\ m[4][0]
       THEN [type |-> "diagonal", direction |-> "tr-bl"]
     ELSE IF m[0][0] /\ m[0][4] /\ m[4][0] /\ m[4][4] /\ m[2][2]
       THEN [type |-> "corners"]
     ELSE NoPattern

\* BingoCard.getWinningPattern
getWinningPattern(card) ==
  LET m == card.marked
      rows == {r \in 0..4 : m[r][0] /\ m[r][1] /\ m[r][2] /\ m[r][3] /\ m[r][4]}
      cols == {c \in 0..4 : m[0][c] /\ m[1][c] /\ m[2][c] /\ m[3][c] /\ m[4][c]}
  IN IF rows # {} THEN [type |-> "horizontal", row |-> CHOOSE r \in rows : \A r2 \in rows : r <= r2]
     ELSE IF cols # {} THEN [type |-> "vertical", col |-> CHOOSE c \in cols : \A c2 \in cols : c <= c2]
     ELSE IF m[0][0] /\ m[1][1] /\ m[2][2] /\ m[3][3] /\ m[4][4]
       THEN [type |-> "diagonal", direction |-> "tl-br"]
     ELSE IF m[0][4] /\ m[1][3] /\ m[2][2] /\ m[3][1] /\ m[4][0]
       THEN [type |-> "diagonal", direction |-> "tr-bl"]
     ELSE IF m[0][0] /\ m[0][4] /\ m[4][0] /\ m[4][4] /\ m[2][2]
       THEN [type |-> "corners"]
     ELSE NoPattern

\* a card that never reports a win
hasWon_never(card) == FALSE

\* BingoCard.hasWon
hasWon(card) == getWinningPattern(card) # NoPattern

\* ------------------------------------------------------------------ BingoGame
NoWinner == [playerId |-> <<>>]
NoGame == [status |-> "no_game"]
EmptyMap == [x \in {} |-> x]

\* new BingoGame(sessionId, wordList)
BingoGame_new(sessionId, wordList) ==
  IF Len(Clean(wordList)) < 24 THEN [threw |-> TRUE, game |-> NoGame, message |-> TooFewWords]
  ELSE [threw |-> FALSE,
        game |-> [sessionId |-> sessionId, wordList |-> wordList, status |-> "waiting",
                  currentRound |-> 0, cards |-> EmptyMap, currentWinner |-> NoWinner,
                  roundWinners |-> <<>>]]

\* BingoGame.start
BingoGame_start(g) ==
  IF g.status # "waiting"
  THEN [threw |-> TRUE, game |-> g, message |-> "Game can only be started from waiting status"]
  ELSE [threw |-> FALSE, game |-> [g EXCEPT !.status = "active", !.currentRound = 1]]

\* a round change that keeps the winner of the round before
AdvanceRound_keepWinner(g) ==
  [g EXCEPT
    !.roundWinners = IF g.currentWinner # NoWinner
                     THEN Append(g.roundWinners, g.currentWinner) ELSE g.roundWinners,
    !.cards = EmptyMap,
    !.currentRound = g.currentRound + 1,
    !.status = "active"]

\* a round change that keeps the cards of the round before
AdvanceRound_keepCards(g) ==
  [g EXCEPT
    !.roundWinners = IF g.currentWinner # NoWinner
                     THEN Append(g.roundWinners, g.currentWinner) ELSE g.roundWinners,
    !.currentWinner = NoWinner,
    !.currentRound = g.currentRound + 1,
    !.status = "active"]

\* a round change that forgets the winner of the round before
AdvanceRound_noArchive(g) ==
  [g EXCEPT
    !.currentWinner = NoWinner,
    !.cards = EmptyMap,
    !.currentRound = g.currentRound + 1,
    !.status = "active"]

\* BingoGame.startNewRound, after the status test: archive the winner, clear
\* the cards, advance the round
AdvanceRound(g) ==
  [g EXCEPT
    !.roundWinners = IF g.currentWinner # NoWinner
                     THEN Append(g.roundWinners, g.currentWinner) ELSE g.roundWinners,
    !.currentWinner = NoWinner,
    !.cards = EmptyMap,
    !.currentRound = g.currentRound + 1,
    !.status = "active"]

\* startNewRound without the status test
startNewRound_anyStatus(g) == [threw |-> FALSE, game |-> AdvanceRound(g)]

\* BingoGame.startNewRound
BingoGame_startNewRound(g) ==
  IF g.status # "finished"
  THEN [threw |-> TRUE, game |-> g,
        message |-> "Can only start a new round after the current round is finished"]
  ELSE [threw |-> FALSE, game |-> AdvanceRound(g)]

\* BingoGame.generateCardForPlayer
BingoGame_generateCardForPlayer(g, playerId, seed, uuid) ==
  IF g.status = "waiting"
  THEN [threw |-> TRUE, game |-> g, card |-> NoCard,
        message |-> "Cannot generate cards before game starts"]
  ELSE Bind(BingoCard_generate(playerId, g.wordList, seed, uuid), LAMBDA gen :
       IF gen.threw THEN [threw |-> TRUE, game |-> g, card |-> NoCard, message |-> gen.message]
       ELSE [threw |-> FALSE,
             game |-> [g EXCEPT !.cards = (playerId :> gen.card) @@ g.cards],
             card |-> gen.card])

Undefined == <<"undefined">>

MarkResult(success, bingo, pattern, roundOver, winnerId, winnerName) ==
  [success |-> success, bingo |-> bingo, pattern |-> pattern, roundOver |-> roundOver,
   winnerId |-> winnerId, winnerName |-> winnerName]

NoResult == [success |-> "none"]

\* BingoGame.markWord, from the card lookup on: the part that runs while the
\* round is active
MarkOnCard(g, playerId, word) ==
  IF playerId \notin DOMAIN g.cards
    THEN [threw |-> FALSE, game |-> g,
          result |-> MarkResult(FALSE, FALSE, NoPattern, FALSE, Undefined, Undefined)]
  ELSE Bind(BingoCard_markWord(g.cards[playerId], word), LAMBDA mk :
    IF ~mk.marked
    THEN [threw |-> FALSE, game |-> g,
          result |-> MarkResult(FALSE, FALSE, NoPattern, FALSE, Undefined, Undefined)]
    ELSE Bind([g EXCEPT !.cards[playerId] = mk.card], LAMBDA g1 :
      IF hasWon(mk.card)
      THEN Bind(getWinningPattern(mk.card), LAMBDA pattern :
             [threw |-> FALSE,
              game |-> [g1 EXCEPT !.currentWinner =
                                     [playerId |-> playerId, playerName |-> playerId,
                                      pattern |-> pattern, roundNumber |-> g.currentRound,
                                      points |-> 100],
                                  !.status = "finished"],
              result |-> MarkResult(TRUE, TRUE, pattern, TRUE, playerId, playerId)])
      ELSE [threw |-> FALSE, game |-> g1,
            result |-> MarkResult(TRUE, FALSE, NoPattern, FALSE, Undefined, Undefined)]))

\* markWord without the test for a finished round
markWord_afterFinish(g, playerId, word) ==
  IF g.status = "waiting"
  THEN [threw |-> TRUE, game |-> g, result |-> NoResult,
        message |-> "Cannot mark words before game starts"]
  ELSE MarkOnCard(g, playerId, word)

\* BingoGame.markWord
BingoGame_markWord(g, playerId, word) ==
  IF g.status = "waiting"
  THEN [threw |-> TRUE, game |-> g, result |-> NoResult,
        message |-> "Cannot mark words before game starts"]
  ELSE IF g.status = "finished"
    THEN [threw |-> FALSE, game |-> g,
          result |-> MarkResult(FALSE, FALSE, NoPattern, TRUE, Undefined, Undefined)]
  ELSE MarkOnCard(g, playerId, word)

\* BingoGame.getRoundWinners
getRoundWinners(g) ==
  IF g.currentWinner # NoWinner THEN Append(g.roundWinners, g.currentWinner)
  ELSE g.roundWinners

\* ------------------------------------------------------------------ Session
NoSession == [id |-> <<>>]
NoPlayer == [id |-> <<>>]
NoRound == 0 - 1

\* new Session(wordList): validates through a throwaway BingoGame
Session_new(wordList, uuid) ==
  IF BingoGame_new(<<"v">>, wordList).threw
  THEN [threw |-> TRUE, session |-> NoSession, message |-> TooFewWords]
  ELSE [threw |-> FALSE,
        session |-> [id |-> uuid, wordList |-> wordList, players |-> <<>>,
                     scores |-> EmptyMap, game |-> NoGame]]

\* Map.get on the players map, kept as a sequence in insertion order
PlayerIds(s) == {s.players[i].id : i \in 1..Len(s.players)}
getPlayer(s, playerId) ==
  IF playerId \in PlayerIds(s)
  THEN s.players[CHOOSE i \in 1..Len(s.players) : s.players[i].id = playerId]
  ELSE NoPlayer

\* Session.getGameStatus
getGameStatus(s) == IF s.game = NoGame THEN "no_game" ELSE s.game.status

\* Session.getCurrentRound
getCurrentRound(s) == IF s.game = NoGame THEN 0 ELSE s.game.currentRound

\* a comparison of the stored names as they are, without lower-casing them
nameTaken_caseSensitive(s, lower) ==
  \E i \in 1..Len(s.players) : s.players[i].screenName = lower

\* the uniqueness loop of Session.addPlayer
nameTaken(s, lower) ==
  \E i \in 1..Len(s.players) : toLowerCase(s.players[i].screenName) = lower

\* Session.addPlayer: n is the number of identifiers handed out so far
Session_addPlayer(s, screenName, seed, n) ==
  LET trimmed == trim(screenName)
      lower == toLowerCase(trimmed)
  IN IF Len(trimmed) = 0
     THEN [threw |-> TRUE, session |-> s, events |-> <<>>, player |-> NoPlayer, used |-> 0,
           message |-> "Screen name cannot be blank"]
     ELSE IF nameTaken(s, lower)
     THEN [threw |-> TRUE, session |-> s, events |-> <<>>, player |-> NoPlayer, used |-> 0,
           message |-> "Screen name is already taken"]
     ELSE
       LET player == [id |-> randomUUID(n + 1), screenName |-> trimmed]
           s1 == [s EXCEPT !.players = Append(s.players, player),
                           !.scores = (player.id :> [totalPoints |-> 0, roundsWon |-> 0,
                                                      lastWinRound |-> NoRound]) @@ s.scores]
           joined == [type |-> "player_joined", playerId |-> player.id, screenName |-> trimmed]
       IN IF s.game # NoGame /\ s.game.status = "active"
          THEN Bind(BingoGame_generateCardForPlayer(s.game, player.id, seed,
                                                    randomUUID(n + 2)), LAMBDA gen :
                 [threw |-> gen.threw,
                  session |-> [s1 EXCEPT !.game = gen.game],
                  events |-> <<joined,
                               [type |-> "game_started",
                                roundNumber |-> gen.game.currentRound,
                                playerId |-> player.id, playerCard |-> gen.card.id]>>,
                  player |-> player, used |-> 2])
          ELSE [threw |-> FALSE, session |-> s1, events |-> <<joined>>,
                player |-> player, used |-> 1]

\* Session.removePlayer
Session_removePlayer(s, playerId) ==
  LET player == getPlayer(s, playerId) IN
  IF player = NoPlayer THEN [threw |-> FALSE, session |-> s, events |-> <<>>]
  ELSE [threw |-> FALSE,
        session |-> [s EXCEPT
          !.players = SelectSeq(s.players, LAMBDA p : p.id # playerId),
          !.scores = [q \in (DOMAIN s.scores) \ {playerId} |-> s.scores[q]]],
        events |-> <<[type |-> "player_left", playerId |-> playerId,
                      screenName |-> player.screenName]>>]

\* the card-dealing loop of startGame / startNewRound over players i..end:
\* one card and one event per player, in join order
RECURSIVE DealFrom(_, _, _, _, _, _, _)
DealFrom(g, players, i, seeds, n, evType, events) ==
  IF i > Len(players) THEN [game |-> g, events |-> events]
  ELSE Bind(BingoGame_generateCardForPlayer(g, players[i].id, seeds[i],
                                            randomUUID(n + i)), LAMBDA gen :
         DealFrom(gen.game, players, i + 1, seeds, n, evType,
                  Append(events, [type |-> evType,
                                  roundNumber |-> IF evType = "game_started" THEN 1
                                                  ELSE gen.game.currentRound,
                                  playerId |-> players[i].id,
                                  playerCard |-> gen.card.id])))

\* Session.startGame
Session_startGame(s, seeds, n) ==
  IF Len(s.players) = 0
  THEN [threw |-> TRUE, session |-> s, events |-> <<>>, used |-> 0,
        message |-> "Cannot start game: at least 1 player required"]
  ELSE Bind(DealFrom(BingoGame_start(BingoGame_new(s.id, s.wordList).game).game,
                     s.players, 1, seeds, n, "game_started", <<>>), LAMBDA dealt :
         [threw |-> FALSE, session |-> [s EXCEPT !.game = dealt.game],
          events |-> dealt.events, used |-> Len(s.players)])

\* Session.startNewRound
Session_startNewRound(s, seeds, n) ==
  IF s.game = NoGame
  THEN [threw |-> TRUE, session |-> s, events |-> <<>>, used |-> 0,
        message |-> "No game to start a new round for"]
  ELSE Bind(BingoGame_startNewRound(s.game), LAMBDA adv :
       IF adv.threw
       THEN [threw |-> TRUE, session |-> s, events |-> <<>>, used |-> 0, message |-> adv.message]
       ELSE Bind(DealFrom(adv.game, s.players, 1, seeds, n, "new_round_started", <<>>),
                 LAMBDA dealt :
              [threw |-> FALSE, session |-> [s EXCEPT !.game = dealt.game],
               events |-> dealt.events, used |-> Len(s.players)]))

\* a score update that adds the points but does not count the round
AwardWin_pointsOnly(scores, winnerId, round) ==
  IF winnerId \in DOMAIN scores
  THEN [scores EXCEPT ![winnerId] = [@ EXCEPT !.totalPoints = @ + 100]]
  ELSE scores

\* the score update of Session.markWord
AwardWin(scores, winnerId, round) ==
  IF winnerId \in DOMAIN scores
  THEN [scores EXCEPT ![winnerId] = [totalPoints |-> @.totalPoints + 100,
                                      roundsWon |-> @.roundsWon + 1,
                                      lastWinRound |-> round]]
  ELSE scores

\* Session.markWord
Session_markWord(s, playerId, word) ==
  IF s.game = NoGame
  THEN [threw |-> TRUE, session |-> s, events |-> <<>>, result |-> NoResult,
        message |-> "No game is active"]
  ELSE Bind(BingoGame_markWord(s.game, playerId, word), LAMBDA mk :
    IF mk.threw
    THEN [threw |-> TRUE, session |-> s, events |-> <<>>, result |-> NoResult,
          message |-> mk.message]
    ELSE
      IF mk.result.bingo /\ mk.result.winnerId # Undefined /\ mk.result.winnerId # <<>>
      THEN Bind(getPlayer(s, mk.result.winnerId), LAMBDA winner :
             [threw |-> FALSE,
              session |-> [s EXCEPT
                !.game = mk.game,
                !.scores = AwardWin(s.scores, mk.result.winnerId, mk.game.currentRound)],
              events |-> <<[type |-> "player_won", winnerId |-> mk.result.winnerId,
                            winnerName |-> IF winner # NoPlayer THEN winner.screenName
                                           ELSE mk.result.winnerId,
                            pattern |-> mk.result.pattern,
                            roundNumber |-> mk.game.currentRound]>>,
              result |-> [mk.result EXCEPT !.winnerName =
                            IF winner # NoPlayer THEN winner.screenName ELSE @]])
      ELSE [threw |-> FALSE, session |-> [s EXCEPT !.game = mk.game], events |-> <<>>,
            result |-> mk.result])

\* the stable Array.prototype.sort by totalPoints descending, as an insertion
\* of each entry after the last entry that has at least as many points
RECURSIVE SortBoard(_, _)
SortBoard(board, sorted) ==
  IF board = <<>> THEN sorted
  ELSE LET e == Head(board)
           k == Cardinality({i \in 1..Len(sorted) : sorted[i].totalPoints >= e.totalPoints})
       IN SortBoard(Tail(board),
                    SubSeq(sorted, 1, k) \o <<e>> \o SubSeq(sorted, k + 1, Len(sorted)))

\* a leaderboard left in join order
getLeaderboard_unsorted(s) ==
  [i \in 1..Len(s.players) |->
    LET p == s.players[i]
        score == IF p.id \in DOMAIN s.scores THEN s.scores[p.id]
                 ELSE [totalPoints |-> 0, roundsWon |-> 0, lastWinRound |-> NoRound]
    IN [playerId |-> p.id, screenName |-> p.screenName,
        totalPoints |-> score.totalPoints, roundsWon |-> score.roundsWon,
        lastWinRound |-> score.lastWinRound]]

\* Session.getLeaderboard
getLeaderboard(s) ==
  LET board == [i \in 1..Len(s.players) |->
                 LET p == s.players[i]
                     score == IF p.id \in DOMAIN s.scores THEN s.scores[p.id]
                              ELSE [totalPoints |-> 0, roundsWon |-> 0, lastWinRound |-> NoRound]
                 IN [playerId |-> p.id, screenName |-> p.screenName,
                     totalPoints |-> score.totalPoints, roundsWon |-> score.roundsWon,
                     lastWinRound |-> score.lastWinRound]]
  IN SortBoard(board, <<>>)

\* ------------------------------------------------------------------ state
VARIABLES
  game,       \* a BingoGame driven directly through its own methods
  session,    \* the Session object (NoSession before construction)
  uuidCount,  \* how many identifiers randomUUID() has handed out
  last,       \* the call or handler turn that ran last, with its outcome
  roundLog,   \* history: bingo results and player_won events since the last round start
  handlerKind, \* which connection handler was constructed: "unified", "admin" or "none"
  handler,    \* the handler's closure variables
  readyState, \* readyState of every socket; "NONE" before it connects
  sent,       \* the messages the last handler turn sent, in order
  relay,      \* the relay handler's closure variables
  listeners,  \* per socket: the listeners the relay attached, with their closure
  client,     \* the admin relay client's closure variables, timers and sockets
  card        \* a BingoCard used on its own (NoCard before generate)

hvars == <<handlerKind, handler, readyState, sent, relay, listeners, client, card>>
vars == <<game, session, uuidCount, last, roundLog, handlerKind, handler, readyState, sent,
          relay, listeners, client, card>>

\* the sockets that may connect, and the connection ids the relay may name
Sockets == {"w1", "w2"}
ConnIds == {"c1", "c2"}

\* the Math.random() streams a shuffle is run with in the session and game
\* behaviours (the card layout is immaterial to them)
Seeds == {0}

\* raw inputs
ScreenNames == {<<"A", "l">>, <<" ", "a", "l", " ">>, <<" ">>, <<"B", "o">>}
\* with random stream 0 the cleaned list is rotated left by one and these are
\* the four corners of the card; "a" is then on no card
MarkWords == {<<" ", "B", " ">>, <<"F">>, <<"u">>, <<"y">>, <<"a">>}
GamePlayers == {<<"p", "1">>, <<"p", "2">>}

\* player ids worth passing in: joined players, players that still own a card,
\* and one identifier that never was a player (the session's own id)
KnownIds(s) == PlayerIds(s) \cup (IF s.game = NoGame THEN {} ELSE DOMAIN s.game.cards) \cup {s.id}
NewRoundLog == [bingos |-> 0, wonEvents |-> 0]
CountWon(events) == Cardinality({i \in 1..Len(events) : events[i].type = "player_won"})

\* no connection handler is constructed
NoHandler ==
  /\ handlerKind = "none"
  /\ handler = [session |-> NoSession]
  /\ readyState = [w \in Sockets |-> "NONE"]
  /\ sent = <<>>
  /\ relay = [adminWs |-> "null"]
  /\ listeners = <<>>
  /\ client = [ws |-> "null"]
  /\ card = NoCard

\* ------------------------------------------------------------------ BingoGame, called directly
InitGame ==
  /\ game = BingoGame_new(<<"s">>, sampleBuzzwords).game
  /\ session = NoSession
  /\ uuidCount = 0
  /\ last = [op |-> "new"]
  /\ roundLog = NewRoundLog
  /\ NoHandler

GameStart ==
  \E r \in {BingoGame_start(game)} :
  /\ game' = r.game
  /\ last' = [op |-> "start", threw |-> r.threw]
  /\ roundLog' = IF r.threw THEN roundLog ELSE NewRoundLog
  /\ UNCHANGED <<session, uuidCount, hvars>>

GameStartNewRound ==
  \E r \in {BingoGame_startNewRound(game)} :
  /\ game' = r.game
  /\ last' = [op |-> "startNewRound", threw |-> r.threw]
  /\ roundLog' = IF r.threw THEN roundLog ELSE NewRoundLog
  /\ UNCHANGED <<session, uuidCount, hvars>>

GameGenerateCard ==
  \E p \in GamePlayers, seed \in Seeds :
    \E r \in {BingoGame_generateCardForPlayer(game, p, seed, randomUUID(uuidCount + 1))} :
    /\ r.threw \/ uuidCount < MaxCards
    /\ game' = r.game
    /\ uuidCount' = IF r.threw THEN uuidCount ELSE uuidCount + 1
    /\ last' = [op |-> "generateCardForPlayer", threw |-> r.threw]
    /\ UNCHANGED <<session, roundLog, hvars>>

GameMarkWord ==
  \E p \in GamePlayers, w \in MarkWords :
    \E r \in {BingoGame_markWord(game, p, w)} :
    /\ game' = r.game
    /\ last' = [op |-> "markWord", threw |-> r.threw, result |-> r.result]
    /\ roundLog' = IF ~r.threw /\ r.result.bingo
                   THEN [roundLog EXCEPT !.bingos = @ + 1] ELSE roundLog
    /\ UNCHANGED <<session, uuidCount, hvars>>

NextGame == GameStart \/ GameStartNewRound \/ GameGenerateCard \/ GameMarkWord

SpecGame == InitGame /\ [][NextGame]_vars

\* ------------------------------------------------------------------ Session, called directly
Init ==
  /\ game = NoGame
  /\ session = Session_new(sampleBuzzwords, randomUUID(1)).session
  /\ uuidCount = 1
  /\ last = [op |-> "new"]
  /\ roundLog = NewRoundLog
  /\ NoHandler

AddPlayer ==
  \E name \in ScreenNames, seed \in Seeds :
    \E r \in {Session_addPlayer(session, name, seed, uuidCount)} :
    /\ uuidCount + r.used <= MaxUuid
    /\ session' = r.session
    /\ uuidCount' = uuidCount + r.used
    /\ last' = [op |-> "addPlayer", threw |-> r.threw,
                player |-> r.player, events |-> r.events]
    /\ UNCHANGED <<game, roundLog, hvars>>

RemovePlayer ==
  \E p \in KnownIds(session) :
    \E r \in {Session_removePlayer(session, p)} :
    /\ session' = r.session
    /\ last' = [op |-> "removePlayer", threw |-> r.threw,
                events |-> r.events]
    /\ UNCHANGED <<game, uuidCount, roundLog, hvars>>

StartGame ==
  \E seeds \in [1..Len(session.players) -> Seeds] :
    \E r \in {Session_startGame(session, seeds, uuidCount)} :
    /\ uuidCount + r.used <= MaxUuid
    /\ session' = r.session
    /\ uuidCount' = uuidCount + r.used
    /\ last' = [op |-> "startGame", threw |-> r.threw, events |-> r.events]
    /\ roundLog' = IF r.threw THEN roundLog ELSE NewRoundLog
    /\ UNCHANGED <<game, hvars>>

StartNewRound ==
  \E seeds \in [1..Len(session.players) -> Seeds] :
    \E r \in {Session_startNewRound(session, seeds, uuidCount)} :
    /\ uuidCount + r.used <= MaxUuid
    /\ session' = r.session
    /\ uuidCount' = uuidCount + r.used
    /\ last' = [op |-> "startNewRound", threw |-> r.threw, events |-> r.events]
    /\ roundLog' = IF r.threw THEN roundLog ELSE NewRoundLog
    /\ UNCHANGED <<game, hvars>>

MarkWord ==
  \E p \in KnownIds(session), w \in MarkWords :
    \E r \in {Session_markWord(session, p, w)} :
    /\ session' = r.session
    /\ last' = [op |-> "markWord", threw |-> r.threw, result |-> r.result,
                events |-> r.events]
    /\ roundLog' = [bingos |-> roundLog.bingos +
                                 (IF ~r.threw /\ r.result.bingo THEN 1 ELSE 0),
                    wonEvents |-> roundLog.wonEvents + CountWon(r.events)]
    /\ UNCHANGED <<game, uuidCount, hvars>>

Next == AddPlayer \/ RemovePlayer \/ StartGame \/ StartNewRound \/ MarkWord

Spec == Init /\ [][Next]_vars

\* ------------------------------------------------------------------ Session with listeners
\* number of entries the listeners array may hold
MaxListeners == 2

\* number of identifiers randomUUID() may hand out in one behaviour with listeners
MaxEmitUuid == 4

\* the functions that may be subscribed
ListenerIds == {"l1", "l2"}

\* the functions that are subscribed
Subscribed(ls) == {ls[i] : i \in 1..Len(ls)}

\* what emit leaves: the listener calls it made, in order, and whether an
\* exception left it
EmitOut(calls, threw) == [calls |-> calls, threw |-> threw]

\* an emit without the try / catch: the first listener that throws ends it
emit_unguarded(ls, event, throwers) ==
  IF \E i \in 1..Len(ls) : ls[i] \in throwers
  THEN LET k == CHOOSE i \in 1..Len(ls) :
                  ls[i] \in throwers /\ \A j \in 1..(i - 1) : ls[j] \notin throwers
       IN EmitOut([i \in 1..k |-> [to |-> ls[i], data |-> event]], TRUE)
  ELSE EmitOut([i \in 1..Len(ls) |-> [to |-> ls[i], data |-> event]], FALSE)

\* Session.emit: every entry of the listeners array is called with the event,
\* in array order; throwers are the functions that throw when called, and the
\* catch discards what they throw
emit(ls, event, throwers) ==
  EmitOut([i \in 1..Len(ls) |-> [to |-> ls[i], data |-> event]], FALSE)

\* the emits of one Session call, in order; an exception that leaves an emit
\* leaves the call
RECURSIVE EmitAll(_, _, _)
EmitAll(ls, events, throwers) ==
  IF events = <<>> THEN EmitOut(<<>>, FALSE)
  ELSE Bind(emit(ls, Head(events), throwers), LAMBDA e :
         IF e.threw THEN e
         ELSE Bind(EmitAll(ls, Tail(events), throwers), LAMBDA rest :
                EmitOut(e.calls \o rest.calls, rest.threw)))

\* Session.addEventListener
addEventListener(ls, l) == Append(ls, l)

\* Session.removeEventListener
removeEventListener(ls, l) == SelectSeq(ls, LAMBDA x : x # l)

InitEmit ==
  /\ game = NoGame
  /\ session = Session_new(sampleBuzzwords, randomUUID(1)).session
  /\ uuidCount = 1
  /\ last = [op |-> "new"]
  /\ roundLog = NewRoundLog
  /\ handlerKind = "none"
  /\ handler = [session |-> NoSession]
  /\ readyState = [w \in Sockets |-> "NONE"]
  /\ sent = <<>>
  /\ relay = [adminWs |-> "null"]
  /\ listeners = <<>>
  /\ client = [ws |-> "null"]
  /\ card = NoCard

\* one Session call with outcome r while the functions in throwers throw
EmitTurn(r, op, throwers) ==
  \E e \in {EmitAll(listeners, r.events, throwers)} :
    /\ uuidCount + r.used <= MaxEmitUuid
    /\ session' = r.session
    /\ uuidCount' = uuidCount + r.used
    /\ sent' = e.calls
    /\ last' = [op |-> op, threw |-> r.threw \/ e.threw, events |-> r.events,
                throwers |-> throwers]
    /\ UNCHANGED <<game, roundLog, handlerKind, handler, readyState, relay, listeners, client, card>>

EmitAddPlayer ==
  \E name \in ScreenNames, seed \in Seeds, throwers \in SUBSET Subscribed(listeners) :
    EmitTurn(Session_addPlayer(session, name, seed, uuidCount), "addPlayer", throwers)

EmitRemovePlayer ==
  \E p \in KnownIds(session), throwers \in SUBSET Subscribed(listeners) :
    \E r \in {Session_removePlayer(session, p)} :
      EmitTurn([threw |-> r.threw, session |-> r.session, events |-> r.events, used |-> 0],
               "removePlayer", throwers)

EmitStartGame ==
  \E seeds \in [1..Len(session.players) -> Seeds], throwers \in SUBSET Subscribed(listeners) :
    EmitTurn(Session_startGame(session, seeds, uuidCount), "startGame", throwers)

EmitStartNewRound ==
  \E seeds \in [1..Len(session.players) -> Seeds], throwers \in SUBSET Subscribed(listeners) :
    EmitTurn(Session_startNewRound(session, seeds, uuidCount), "startNewRound", throwers)

EmitMarkWord ==
  \E p \in KnownIds(session), w \in MarkWords, throwers \in SUBSET Subscribed(listeners) :
    \E r \in {Session_markWord(session, p, w)} :
      EmitTurn([threw |-> r.threw, session |-> r.session, events |-> r.events, used |-> 0],
               "markWord", throwers)

AddEventListener ==
  \E l \in ListenerIds :
    /\ Len(listeners) < MaxListeners
    /\ listeners' = addEventListener(listeners, l)
    /\ sent' = <<>>
    /\ last' = [op |-> "addEventListener", threw |-> FALSE, events |-> <<>>, throwers |-> {}]
    /\ UNCHANGED <<game, session, uuidCount, roundLog, handlerKind, handler, readyState,
                   relay, client, card>>

RemoveEventListener ==
  \E l \in ListenerIds :
    /\ listeners' = removeEventListener(listeners, l)
    /\ sent' = <<>>
    /\ last' = [op |-> "removeEventListener", threw |-> FALSE, events |-> <<>>,
                throwers |-> {}]
    /\ UNCHANGED <<game, session, uuidCount, roundLog, handlerKind, handler, readyState,
                   relay, client, card>>

NextEmit ==
  \/ EmitAddPlayer \/ EmitRemovePlayer \/ EmitStartGame \/ EmitStartNewRound \/ EmitMarkWord
  \/ AddEventListener \/ RemoveEventListener

SpecEmit == InitEmit /\ [][NextEmit]_vars

\* ------------------------------------------------------------------ BingoCard, called directly
\* the random streams a card is generated with: stream number seed draws
\* RandomIndex(seed, i) at index i
MaxSeed == 30
CardSeeds == 0..MaxSeed

\* word lists: 24 unique words exactly; lists that hold the word FREE, in
\* upper case with 24 unique words and in lower case with 25
exactWordList == SubSeq(sampleBuzzwords, 1, 26)
freeWordList == <<FREE>> \o SubSeq(sampleBuzzwords, 4, 26)
lowerFreeWordList == << <<" ", "f", "r", "e", "e">> >> \o SubSeq(sampleBuzzwords, 4, 27)
WordLists ==
  {sampleBuzzwords, shortWordList, exactWordList, freeWordList, lowerFreeWordList, <<>>}

InitCard ==
  /\ game = NoGame
  /\ session = NoSession
  /\ uuidCount = 0
  /\ last = [op |-> "new"]
  /\ roundLog = NewRoundLog
  /\ NoHandler

\* BingoCard.generate
CardGenerate ==
  \E wordList \in WordLists, seed \in CardSeeds :
    \E r \in {BingoCard_generate(<<"p", "1">>, wordList, seed, randomUUID(1))} :
      /\ card' = r.card
      /\ last' = [op |-> "generate", threw |-> r.threw, wordList |-> wordList, seed |-> seed]
      /\ UNCHANGED <<game, session, uuidCount, roundLog, handlerKind, handler, readyState,
                     sent, relay, listeners, client>>

SpecCard == InitCard /\ [][CardGenerate]_vars

\* ------------------------------------------------------------------ win detection, called directly
\* the patterns in the order getWinningPattern looks at them, and their cells
ScanOrder ==
  [i \in 1..5 |-> [type |-> "horizontal", row |-> i - 1]]
    \o [i \in 1..5 |-> [type |-> "vertical", col |-> i - 1]]
    \o << [type |-> "diagonal", direction |-> "tl-br"],
          [type |-> "diagonal", direction |-> "tr-bl"],
          [type |-> "corners"] >>

PatternCells(i) ==
  IF i <= 5 THEN {<<i - 1, c>> : c \in 0..4}
  ELSE IF i <= 10 THEN {<<r, i - 6>> : r \in 0..4}
  ELSE IF i = 11 THEN {<<k, k>> : k \in 0..4}
  ELSE IF i = 12 THEN {<<k, 4 - k>> : k \in 0..4}
  ELSE {<<0, 0>>, <<0, 4>>, <<4, 0>>, <<4, 4>>, <<2, 2>>}

\* number of patterns marked in full in a mark state that is tried
MaxPatterns == 3

\* the mark states tried: the centre, up to MaxPatterns patterns in full, and
\* at most one cell other than the centre left unmarked
MarkStates ==
  {[r \in 0..4 |-> [c \in 0..4 |->
      /\ <<r, c>> # x
      /\ (r = 2 /\ c = 2) \/ \E i \in S : <<r, c>> \in PatternCells(i)]] :
     S \in {T \in SUBSET (1..13) : Cardinality(T) <= MaxPatterns},
     x \in (((0..4) \X (0..4)) \ {<<2, 2>>}) \cup {<<5, 5>>}}

InitPattern ==
  /\ game = NoGame
  /\ session = NoSession
  /\ uuidCount = 1
  /\ last = [op |-> "new"]
  /\ roundLog = NewRoundLog
  /\ handlerKind = "none"
  /\ handler = [session |-> NoSession]
  /\ readyState = [w \in Sockets |-> "NONE"]
  /\ sent = <<>>
  /\ relay = [adminWs |-> "null"]
  /\ listeners = <<>>
  /\ client = [ws |-> "null"]
  /\ \E m \in MarkStates :
       card = [BingoCard_generate(<<"p", "1">>, sampleBuzzwords, 0, randomUUID(1)).card
                 EXCEPT !.marked = m]

\* BingoCard.hasWon
CardHasWon ==
  /\ last' = [op |-> "hasWon", result |-> hasWon(card)]
  /\ UNCHANGED <<game, session, uuidCount, roundLog, hvars>>

\* BingoCard.getWinningPattern
CardGetWinningPattern ==
  /\ last' = [op |-> "getWinningPattern", result |-> getWinningPattern(card)]
  /\ UNCHANGED <<game, session, uuidCount, roundLog, hvars>>

NextPattern == CardHasWon \/ CardGetWinningPattern

SpecPattern == InitPattern /\ [][NextPattern]_vars

\* ------------------------------------------------------------------ Session, one round on one card
\* number of identifiers randomUUID() may hand out: the session, one player
\* and that player's card
MaxRowUuid == 3

\* with random stream 0 row 0 of the card is b c d e f; u and y are the two
\* lower corners
RowWords == {<<" ", "B", " ">>, <<"c">>, <<"d">>, <<"E">>, <<"f">>, <<"u">>, <<"y">>}

RowAddPlayer ==
  \E name \in ScreenNames, seed \in Seeds :
    \E r \in {Session_addPlayer(session, name, seed, uuidCount)} :
    /\ uuidCount + r.used <= MaxRowUuid
    /\ session' = r.session
    /\ uuidCount' = uuidCount + r.used
    /\ last' = [op |-> "addPlayer", threw |-> r.threw,
                player |-> r.player, events |-> r.events]
    /\ UNCHANGED <<game, roundLog, hvars>>

RowStartGame ==
  \E seeds \in [1..Len(session.players) -> Seeds] :
    \E r \in {Session_startGame(session, seeds, uuidCount)} :
    /\ uuidCount + r.used <= MaxRowUuid
    /\ session' = r.session
    /\ uuidCount' = uuidCount + r.used
    /\ last' = [op |-> "startGame", threw |-> r.threw, events |-> r.events]
    /\ roundLog' = IF r.threw THEN roundLog ELSE NewRoundLog
    /\ UNCHANGED <<game, hvars>>

RowMarkWord ==
  \E p \in KnownIds(session), w \in RowWords :
    \E r \in {Session_markWord(session, p, w)} :
    /\ session' = r.session
    /\ last' = [op |-> "markWord", threw |-> r.threw, result |-> r.result,
                events |-> r.events]
    /\ roundLog' = [bingos |-> roundLog.bingos +
                                 (IF ~r.threw /\ r.result.bingo THEN 1 ELSE 0),
                    wonEvents |-> roundLog.wonEvents + CountWon(r.events)]
    /\ UNCHANGED <<game, uuidCount, hvars>>

NextRow == RowAddPlayer \/ RowStartGame \/ RowMarkWord

SpecRow == Init /\ [][NextRow]_vars

\* ------------------------------------------------------------------ Session, two players over rounds
\* number of identifiers randomUUID() may hand out: the session, two players
\* and their cards of two rounds
MaxRoundUuid == 7

RoundNames == {<<"A", "l">>, <<"B", "o">>}

\* the four corners of a card dealt with random stream 0, in reading order
RoundWords == << <<" ", "B", " ">>, <<"F">>, <<"u">>, <<"y">> >>
CornerCells == << <<0, 0>>, <<0, 4>>, <<4, 0>>, <<4, 4>> >>

\* the word player p calls next: the first corner not yet marked on the
\* card held for p, the first corner when there is no such card or corner
NextWord(s, p) ==
  IF s.game = NoGame \/ p \notin DOMAIN s.game.cards THEN RoundWords[1]
  ELSE LET open == {i \in 1..4 :
                     ~s.game.cards[p].marked[CornerCells[i][1]][CornerCells[i][2]]}
       IN IF open = {} THEN RoundWords[1]
          ELSE RoundWords[CHOOSE i \in open : \A j \in open : i <= j]

RoundAddPlayer ==
  \E name \in RoundNames, seed \in Seeds :
    \E r \in {Session_addPlayer(session, name, seed, uuidCount)} :
    /\ uuidCount + r.used <= MaxRoundUuid
    /\ session' = r.session
    /\ uuidCount' = uuidCount + r.used
    /\ last' = [op |-> "addPlayer", threw |-> r.threw,
                player |-> r.player, events |-> r.events]
    /\ UNCHANGED <<game, roundLog, hvars>>

RoundRemovePlayer ==
  \E p \in PlayerIds(session) :
    \E r \in {Session_removePlayer(session, p)} :
    /\ session' = r.session
    /\ last' = [op |-> "removePlayer", threw |-> r.threw, playerId |-> p,
                events |-> r.events]
    /\ UNCHANGED <<game, uuidCount, roundLog, hvars>>

RoundStartGame ==
  \E seeds \in [1..Len(session.players) -> Seeds] :
    \E r \in {Session_startGame(session, seeds, uuidCount)} :
    /\ uuidCount + r.used <= MaxRoundUuid
    /\ session' = r.session
    /\ uuidCount' = uuidCount + r.used
    /\ last' = [op |-> "startGame", threw |-> r.threw, events |-> r.events]
    /\ UNCHANGED <<game, roundLog, hvars>>

RoundStartNewRound ==
  \E seeds \in [1..Len(session.players) -> Seeds] :
    \E r \in {Session_startNewRound(session, seeds, uuidCount)} :
    /\ uuidCount + r.used <= MaxRoundUuid
    /\ session' = r.session
    /\ uuidCount' = uuidCount + r.used
    /\ last' = [op |-> "startNewRound", threw |-> r.threw, events |-> r.events]
    /\ UNCHANGED <<game, roundLog, hvars>>

RoundMarkWord ==
  \E p \in KnownIds(session) \ {session.id} :
    \E r \in {Session_markWord(session, p, NextWord(session, p))} :
    /\ session' = r.session
    /\ last' = [op |-> "markWord", threw |-> r.threw, playerId |-> p,
                result |-> r.result, events |-> r.events]
    /\ UNCHANGED <<game, uuidCount, roundLog, hvars>>

NextRound ==
  \/ RoundAddPlayer \/ RoundRemovePlayer \/ RoundStartGame
  \/ RoundStartNewRound \/ RoundMarkWord

SpecRound == Init /\ [][NextRound]_vars

\* ------------------------------------------------------------------ protocol
\* A raw message is modelled by what JSON.parse makes of it: json = FALSE is a
\* text that does not parse to an object; otherwise type is the object's type
\* field, arg its payload field (words, screenName or word) and typed tells
\* whether the payload has the type the command asks for (an array of
\* strings, a string).
NoCommand == [type |-> "null"]

COMMAND_TYPES == {"create_session", "start_game", "start_new_round", "join", "mark_word"}

\* parseCommand
parseCommand(raw) ==
  IF ~raw.json THEN NoCommand
  ELSE IF raw.type \notin COMMAND_TYPES THEN NoCommand
  ELSE IF raw.type = "create_session"
    THEN IF ~raw.typed THEN NoCommand ELSE [type |-> "create_session", words |-> raw.arg]
  ELSE IF raw.type = "join"
    THEN IF ~raw.typed THEN NoCommand ELSE [type |-> "join", screenName |-> raw.arg]
  ELSE IF raw.type = "mark_word"
    THEN IF ~raw.typed THEN NoCommand ELSE [type |-> "mark_word", word |-> raw.arg]
  ELSE [type |-> raw.type]

\* serializeEvent: the JSON text of an event, again as its parsed object
serializeEvent(event) == [json |-> TRUE, object |-> event]

ErrorEvent(message) == [type |-> "error", message |-> message]

\* ------------------------------------------------------------------ handlers: shared state
NoSocket == "null"
NoInfo == [playerId |-> <<>>]

\* Map keyed by socket (or connection id), in insertion order
MapHas(m, k) == \E i \in 1..Len(m) : m[i].key = k
MapGet(m, k) == IF MapHas(m, k) THEN m[CHOOSE i \in 1..Len(m) : m[i].key = k].value ELSE NoInfo
MapSet(m, k, v) ==
  IF MapHas(m, k) THEN [i \in 1..Len(m) |-> IF m[i].key = k THEN [key |-> k, value |-> v] ELSE m[i]]
  ELSE Append(m, [key |-> k, value |-> v])
MapDelete(m, k) == SelectSeq(m, LAMBDA e : e.key # k)

\* the handler's closure variables; in the admin-side handler the maps are
\* connectionToPlayer, playerToConnection and pendingJoinConnectionId
NewHandler ==
  [session |-> NoSession, adminSocket |-> NoSocket, socketToPlayer |-> <<>>,
   playerToSocket |-> EmptyMap, pendingJoinSocket |-> NoSocket]

RECURSIVE Flatten(_)
Flatten(seqs) == IF seqs = <<>> THEN <<>> ELSE Head(seqs) \o Flatten(Tail(seqs))

\* the protocol events one session event is turned into, in order; dest is
\* the card's addressee of game_started / new_round_started
CardDealt(s, event) ==
  [type |-> "card_dealt", roundNumber |-> event.roundNumber,
   grid |-> s.game.cards[event.playerId].grid,
   marked |-> s.game.cards[event.playerId].marked]
GameStatusEvent(s) ==
  [type |-> "game_status", status |-> getGameStatus(s), round |-> getCurrentRound(s)]
LeaderboardEvent(s) == [type |-> "leaderboard", entries |-> getLeaderboard(s)]
PlayerWonEvent(event) ==
  [type |-> "player_won", winnerName |-> event.winnerName, pattern |-> event.pattern,
   roundNumber |-> event.roundNumber]
PlayerCountEvent(s, event) ==
  [type |-> event.type, playerId |-> event.playerId, screenName |-> event.screenName,
   playerCount |-> Len(s.players)]

\* what one handler turn leaves: the closure variables, the messages it sent
\* in order, and how many identifiers it drew
Out(h, msgs, used) == [h |-> h, sent |-> msgs, used |-> used]

\* ------------------------------------------------------------------ unified handler
\* send: rs is the readyState of every socket
send(rs, ws, event) ==
  IF rs[ws] = "OPEN" THEN <<[to |-> ws, data |-> serializeEvent(event)]>> ELSE <<>>

\* a broadcast that leaves the admin out
broadcast_playersOnly(h, rs, event) ==
  Flatten([i \in 1..Len(h.socketToPlayer) |-> send(rs, h.socketToPlayer[i].key, event)])

\* broadcast: every socket of socketToPlayer in insertion order, then the admin
broadcast(h, rs, event) ==
  Flatten([i \in 1..Len(h.socketToPlayer) |-> send(rs, h.socketToPlayer[i].key, event)])
    \o (IF h.adminSocket # NoSocket THEN send(rs, h.adminSocket, event) ELSE <<>>)

\* handleSessionEvent, run by Session.emit inside the session call; s is the
\* session as the listener reads it
handleSessionEvent(h, rs, s, event) ==
  IF event.type \in {"game_started", "new_round_started"}
  THEN LET ws == IF event.playerId \in DOMAIN h.playerToSocket
                 THEN h.playerToSocket[event.playerId] ELSE h.pendingJoinSocket
       IN (IF ws # NoSocket THEN send(rs, ws, CardDealt(s, event)) ELSE <<>>)
            \o broadcast(h, rs, GameStatusEvent(s))
            \o broadcast(h, rs, LeaderboardEvent(s))
  ELSE IF event.type = "player_won"
  THEN broadcast(h, rs, PlayerWonEvent(event))
         \o broadcast(h, rs, LeaderboardEvent(s))
         \o broadcast(h, rs, GameStatusEvent(s))
  ELSE broadcast(h, rs, PlayerCountEvent(s, event))

EventsOut(h, rs, s, events) ==
  Flatten([i \in 1..Len(events) |-> handleSessionEvent(h, rs, s, events[i])])

\* a test that lets every socket pass
notAdmin_never(h, ws) == FALSE

\* the test of start_game and start_new_round for the admin socket
notAdmin(h, ws) == ws # h.adminSocket

\* handleMessage, case start_game / start_new_round
handleStart(h, rs, ws, command, seeds, n) ==
  IF h.session = NoSession THEN Out(h, send(rs, ws, ErrorEvent("No session exists")), 0)
  ELSE IF notAdmin(h, ws)
    THEN Out(h, send(rs, ws, ErrorEvent(IF command.type = "start_game"
                                        THEN "Only admin can start the game"
                                        ELSE "Only admin can start a new round")), 0)
  ELSE Bind(IF command.type = "start_game" THEN Session_startGame(h.session, seeds, n)
            ELSE Session_startNewRound(h.session, seeds, n), LAMBDA r :
         IF r.threw THEN Out(h, send(rs, ws, ErrorEvent(r.message)), 0)
         ELSE Out([h EXCEPT !.session = r.session],
                  EventsOut(h, rs, r.session, r.events), r.used))

\* a create_session that makes its sender the admin when the admin is gone
handleCreateSession_takeOver(h, rs, ws, command, n) ==
  IF h.session # NoSession
  THEN IF h.adminSocket = NoSocket
       THEN Out([h EXCEPT !.adminSocket = ws],
                send(rs, ws, [type |-> "session_created", sessionId |-> h.session.id]), 0)
       ELSE Out(h, send(rs, ws, ErrorEvent("Session already exists")), 0)
  ELSE Bind(Session_new(command.words, randomUUID(n + 1)), LAMBDA r :
         IF r.threw THEN Out(h, send(rs, ws, ErrorEvent(r.message)), 0)
         ELSE Out([h EXCEPT !.session = r.session, !.adminSocket = ws],
                  send(rs, ws, [type |-> "session_created", sessionId |-> r.session.id]), 1))

\* handleMessage, case create_session
handleCreateSession(h, rs, ws, command, n) ==
  IF h.session # NoSession THEN Out(h, send(rs, ws, ErrorEvent("Session already exists")), 0)
  ELSE Bind(Session_new(command.words, randomUUID(n + 1)), LAMBDA r :
         IF r.threw THEN Out(h, send(rs, ws, ErrorEvent(r.message)), 0)
         ELSE Out([h EXCEPT !.session = r.session, !.adminSocket = ws],
                  send(rs, ws, [type |-> "session_created", sessionId |-> r.session.id]), 1))

\* a join that leaves pendingJoinSocket alone
handleJoin_noPending(h, rs, ws, command, seeds, n) ==
  IF h.session = NoSession THEN Out(h, send(rs, ws, ErrorEvent("No session exists")), 0)
  ELSE Bind(Session_addPlayer(h.session, command.screenName, seeds[1], n), LAMBDA r :
         IF r.threw THEN Out(h, send(rs, ws, ErrorEvent(r.message)), 0)
         ELSE Out([h EXCEPT !.session = r.session,
                            !.socketToPlayer =
                               MapSet(h.socketToPlayer, ws,
                                      [playerId |-> r.player.id,
                                       screenName |-> r.player.screenName]),
                            !.playerToSocket = (r.player.id :> ws) @@ h.playerToSocket],
                  EventsOut(h, rs, r.session, r.events)
                    \o send(rs, ws, [type |-> "joined", playerId |-> r.player.id,
                                     screenName |-> r.player.screenName,
                                     gameStatus |-> getGameStatus(r.session),
                                     round |-> getCurrentRound(r.session)]),
                  r.used))

\* handleMessage, case join
handleJoin(h, rs, ws, command, seeds, n) ==
  IF h.session = NoSession THEN Out(h, send(rs, ws, ErrorEvent("No session exists")), 0)
  ELSE Bind([h EXCEPT !.pendingJoinSocket = ws], LAMBDA h1 :
       Bind(Session_addPlayer(h.session, command.screenName, seeds[1], n), LAMBDA r :
         IF r.threw THEN Out(h1, send(rs, ws, ErrorEvent(r.message)), 0)
         ELSE Out([h EXCEPT !.session = r.session,
                            !.pendingJoinSocket = NoSocket,
                            !.socketToPlayer =
                               MapSet(h.socketToPlayer, ws,
                                      [playerId |-> r.player.id,
                                       screenName |-> r.player.screenName]),
                            !.playerToSocket = (r.player.id :> ws) @@ h.playerToSocket],
                  EventsOut(h1, rs, r.session, r.events)
                    \o send(rs, ws, [type |-> "joined", playerId |-> r.player.id,
                                     screenName |-> r.player.screenName,
                                     gameStatus |-> getGameStatus(r.session),
                                     round |-> getCurrentRound(r.session)]),
                  r.used)))

\* handleMessage, case mark_word
handleMarkWord(h, rs, ws, command) ==
  IF h.session = NoSession THEN Out(h, send(rs, ws, ErrorEvent("No session exists")), 0)
  ELSE Bind(MapGet(h.socketToPlayer, ws), LAMBDA info :
       IF info = NoInfo THEN Out(h, send(rs, ws, ErrorEvent("Not joined as a player")), 0)
       ELSE Bind(Session_markWord(h.session, info.playerId, command.word), LAMBDA r :
         IF r.threw THEN Out(h, send(rs, ws, ErrorEvent(r.message)), 0)
         ELSE Out([h EXCEPT !.session = r.session],
                  EventsOut(h, rs, r.session, r.events)
                    \o send(rs, ws, [type |-> "mark_result", success |-> r.result.success,
                                     word |-> command.word, bingo |-> r.result.bingo,
                                     roundOver |-> r.result.roundOver]),
                  0)))

\* handleMessage
handleMessage(h, rs, ws, raw, seeds, n) ==
  Bind(parseCommand(raw), LAMBDA command :
    IF command = NoCommand THEN Out(h, send(rs, ws, ErrorEvent("Invalid command")), 0)
    ELSE IF command.type = "create_session" THEN handleCreateSession(h, rs, ws, command, n)
    ELSE IF command.type \in {"start_game", "start_new_round"}
      THEN handleStart(h, rs, ws, command, seeds, n)
    ELSE IF command.type = "join" THEN handleJoin(h, rs, ws, command, seeds, n)
    ELSE handleMarkWord(h, rs, ws, command))

\* a close that removes the player and keeps its playerToSocket entry
handleClose_keepEntry(h, rs, ws) ==
  Bind(MapGet(h.socketToPlayer, ws), LAMBDA info :
    Bind(IF info # NoInfo /\ h.session # NoSession
         THEN Bind(Session_removePlayer(h.session, info.playerId), LAMBDA r :
                Out([h EXCEPT !.session = r.session,
                              !.socketToPlayer = MapDelete(h.socketToPlayer, ws)],
                    EventsOut(h, rs, r.session, r.events), 0))
         ELSE Out(h, <<>>, 0), LAMBDA o :
      Out([o.h EXCEPT !.adminSocket = IF ws = h.adminSocket THEN NoSocket ELSE @],
          o.sent, 0)))

\* handleClose; the socket is no longer open when its close event is handled
handleClose(h, rs, ws) ==
  Bind(MapGet(h.socketToPlayer, ws), LAMBDA info :
    Bind(IF info # NoInfo /\ h.session # NoSession
         THEN Bind(Session_removePlayer(h.session, info.playerId), LAMBDA r :
                Out([h EXCEPT !.session = r.session,
                              !.playerToSocket =
                                 [q \in (DOMAIN h.playerToSocket) \ {info.playerId} |->
                                    h.playerToSocket[q]],
                              !.socketToPlayer = MapDelete(h.socketToPlayer, ws)],
                    EventsOut(h, rs, r.session, r.events), 0))
         ELSE Out(h, <<>>, 0), LAMBDA o :
      Out([o.h EXCEPT !.adminSocket = IF ws = h.adminSocket THEN NoSocket ELSE @],
          o.sent, 0)))

\* ------------------------------------------------------------------ admin-side handler
\* sendToAdmin: to whatever socket adminSocket names now
sendToAdmin(h, rs, event) ==
  IF h.adminSocket # NoSocket THEN send(rs, h.adminSocket, event) ELSE <<>>

\* sendToPlayer: a call of relay.sendToPlayer
sendToPlayer(connectionId, event) ==
  <<[to |-> connectionId, data |-> serializeEvent(event)]>>

\* the addressee of relay.broadcastToPlayers
AllPlayers == "players"

\* broadcastToAll
broadcastToAll(h, rs, event) ==
  <<[to |-> AllPlayers, data |-> serializeEvent(event)]>> \o sendToAdmin(h, rs, event)

\* handleSessionEvent of the admin-side handler
Admin_handleSessionEvent(h, rs, s, event) ==
  IF event.type \in {"game_started", "new_round_started"}
  THEN LET connId == IF event.playerId \in DOMAIN h.playerToSocket
                     THEN h.playerToSocket[event.playerId] ELSE h.pendingJoinSocket
       IN (IF connId # NoSocket THEN sendToPlayer(connId, CardDealt(s, event)) ELSE <<>>)
            \o broadcastToAll(h, rs, GameStatusEvent(s))
            \o broadcastToAll(h, rs, LeaderboardEvent(s))
  ELSE IF event.type = "player_won"
  THEN broadcastToAll(h, rs, PlayerWonEvent(event))
         \o broadcastToAll(h, rs, LeaderboardEvent(s))
         \o broadcastToAll(h, rs, GameStatusEvent(s))
  ELSE broadcastToAll(h, rs, PlayerCountEvent(s, event))

Admin_EventsOut(h, rs, s, events) ==
  Flatten([i \in 1..Len(events) |-> Admin_handleSessionEvent(h, rs, s, events[i])])

\* handleAdminConnection
handleAdminConnection(h, ws) == Out([h EXCEPT !.adminSocket = ws], <<>>, 0)

\* the close listener of handleAdminConnection
Admin_handleClose(h, ws) ==
  Out([h EXCEPT !.adminSocket = IF ws = h.adminSocket THEN NoSocket ELSE @], <<>>, 0)

\* handleAdminMessage
handleAdminMessage(h, rs, ws, raw, seeds, n) ==
  Bind(parseCommand(raw), LAMBDA command :
    IF command = NoCommand THEN Out(h, sendToAdmin(h, rs, ErrorEvent("Invalid command")), 0)
    ELSE IF command.type = "create_session"
      THEN IF h.session # NoSession
           THEN Out(h, sendToAdmin(h, rs, ErrorEvent("Session already exists")), 0)
           ELSE Bind(Session_new(command.words, randomUUID(n + 1)), LAMBDA r :
                  IF r.threw THEN Out(h, sendToAdmin(h, rs, ErrorEvent(r.message)), 0)
                  ELSE Bind([h EXCEPT !.session = r.session, !.adminSocket = ws], LAMBDA h1 :
                         Out(h1, sendToAdmin(h1, rs, [type |-> "session_created",
                                                      sessionId |-> r.session.id]), 1)))
    ELSE IF command.type \in {"start_game", "start_new_round"}
      THEN IF h.session = NoSession
           THEN Out(h, sendToAdmin(h, rs, ErrorEvent("No session exists")), 0)
           ELSE Bind(IF command.type = "start_game"
                     THEN Session_startGame(h.session, seeds, n)
                     ELSE Session_startNewRound(h.session, seeds, n), LAMBDA r :
                  IF r.threw THEN Out(h, sendToAdmin(h, rs, ErrorEvent(r.message)), 0)
                  ELSE Out([h EXCEPT !.session = r.session],
                           Admin_EventsOut(h, rs, r.session, r.events), r.used))
    ELSE Out(h, sendToAdmin(h, rs, ErrorEvent("Admin cannot send player commands")), 0))

\* handlePlayerCommand
handlePlayerCommand(h, rs, connectionId, raw, seeds, n) ==
  Bind(parseCommand(raw), LAMBDA command :
    IF command = NoCommand THEN Out(h, sendToPlayer(connectionId, ErrorEvent("Invalid command")), 0)
    ELSE IF command.type = "join"
      THEN IF h.session = NoSession
           THEN Out(h, sendToPlayer(connectionId, ErrorEvent("No session exists")), 0)
           ELSE Bind([h EXCEPT !.pendingJoinSocket = connectionId], LAMBDA h1 :
                Bind(Session_addPlayer(h.session, command.screenName, seeds[1], n), LAMBDA r :
                  IF r.threw THEN Out(h1, sendToPlayer(connectionId, ErrorEvent(r.message)), 0)
                  ELSE Out([h EXCEPT !.session = r.session,
                                     !.pendingJoinSocket = NoSocket,
                                     !.socketToPlayer =
                                        MapSet(h.socketToPlayer, connectionId,
                                               [playerId |-> r.player.id,
                                                screenName |-> r.player.screenName]),
                                     !.playerToSocket =
                                        (r.player.id :> connectionId) @@ h.playerToSocket],
                           Admin_EventsOut(h1, rs, r.session, r.events)
                             \o sendToPlayer(connectionId,
                                  [type |-> "joined", playerId |-> r.player.id,
                                   screenName |-> r.player.screenName,
                                   gameStatus |-> getGameStatus(r.session),
                                   round |-> getCurrentRound(r.session)]),
                           r.used)))
    ELSE IF command.type = "mark_word"
      THEN IF h.session = NoSession
           THEN Out(h, sendToPlayer(connectionId, ErrorEvent("No session exists")), 0)
           ELSE Bind(MapGet(h.socketToPlayer, connectionId), LAMBDA info :
                IF info = NoInfo
                THEN Out(h, sendToPlayer(connectionId, ErrorEvent("Not joined as a player")), 0)
                ELSE Bind(Session_markWord(h.session, info.playerId, command.word), LAMBDA r :
                  IF r.threw THEN Out(h, sendToPlayer(connectionId, ErrorEvent(r.message)), 0)
                  ELSE Out([h EXCEPT !.session = r.session],
                           Admin_EventsOut(h, rs, r.session, r.events)
                             \o sendToPlayer(connectionId,
                                  [type |-> "mark_result", success |-> r.result.success,
                                   word |-> command.word, bingo |-> r.result.bingo,
                                   roundOver |-> r.result.roundOver]),
                           0)))
    ELSE Out(h, sendToPlayer(connectionId,
                             ErrorEvent("Players can only join or mark words")), 0))

\* handlePlayerDisconnected
handlePlayerDisconnected(h, rs, connectionId) ==
  Bind(MapGet(h.socketToPlayer, connectionId), LAMBDA info :
    IF info # NoInfo /\ h.session # NoSession
    THEN Bind(Session_removePlayer(h.session, info.playerId), LAMBDA r :
           Out([h EXCEPT !.session = r.session,
                         !.playerToSocket =
                            [q \in (DOMAIN h.playerToSocket) \ {info.playerId} |->
                               h.playerToSocket[q]],
                         !.socketToPlayer = MapDelete(h.socketToPlayer, connectionId)],
               Admin_EventsOut(h, rs, r.session, r.events), 0))
    ELSE Out(h, <<>>, 0))

\* ------------------------------------------------------------------ handlers as state machines
\* number of identifiers randomUUID() may hand out in one handler behaviour
MaxHandlerUuid == 3
\* the same number in the behaviours in which a player joins a running game
MaxLateUuid == 5

DealSeeds == [1..2 -> Seeds]

Raw(type, typed, arg) == [json |-> TRUE, type |-> type, typed |-> typed, arg |-> arg]

CreateRaws == {Raw("create_session", TRUE, sampleBuzzwords),
               Raw("create_session", TRUE, shortWordList)}
StartRaws == {Raw("start_game", FALSE, <<>>), Raw("start_new_round", FALSE, <<>>)}
JoinRaws == {Raw("join", TRUE, name) : name \in ScreenNames}
MarkRaws == {Raw("mark_word", TRUE, w) : w \in {<<" ", "B", " ">>, <<"a">>}}
\* a text that is not JSON, an unknown type, and payloads of the wrong type
InvalidRaws == {[json |-> FALSE, type |-> "", typed |-> FALSE, arg |-> <<>>],
                Raw("ping", FALSE, <<>>),
                Raw("create_session", FALSE, <<>>),
                Raw("join", FALSE, <<>>),
                Raw("mark_word", FALSE, <<>>)}

InitHandler ==
  /\ game = NoGame
  /\ session = NoSession
  /\ uuidCount = 0
  /\ last = [op |-> "new"]
  /\ roundLog = NewRoundLog
  /\ handlerKind \in {"unified", "admin"}
  /\ handler = NewHandler
  /\ readyState = [w \in Sockets |-> "NONE"]
  /\ sent = <<>>
  /\ relay = [adminWs |-> "null"]
  /\ listeners = <<>>
  /\ client = [ws |-> "null"]
  /\ card = NoCard

\* one handler turn with outcome o, while at most max identifiers are drawn
TurnWithin(o, max) ==
  /\ uuidCount + o.used <= max
  /\ handler' = o.h
  /\ sent' = o.sent
  /\ uuidCount' = uuidCount + o.used
  /\ UNCHANGED <<game, session, last, roundLog, handlerKind, relay, listeners, client, card>>

Turn(o) == TurnWithin(o, MaxHandlerUuid)

\* a socket connects: handleConnection / handleAdminConnection
Connect ==
  \E ws \in Sockets :
    /\ readyState[ws] = "NONE"
    /\ readyState' = [readyState EXCEPT ![ws] = "OPEN"]
    /\ \E o \in {IF handlerKind = "admin" THEN handleAdminConnection(handler, ws)
                 ELSE Out(handler, <<>>, 0)} : Turn(o)

\* the message listener of the handler that was constructed
MessageOut(ws, raw, seeds) ==
  IF handlerKind = "admin"
  THEN handleAdminMessage(handler, readyState, ws, raw, seeds, uuidCount)
  ELSE handleMessage(handler, readyState, ws, raw, seeds, uuidCount)

\* a message of an open socket is handled
OnMessageWithin(raws, max) ==
  \E ws \in Sockets, raw \in raws, seeds \in DealSeeds :
    /\ readyState[ws] = "OPEN"
    /\ \E o \in {MessageOut(ws, raw, seeds)} : TurnWithin(o, max)
    /\ UNCHANGED readyState

OnMessage(raws) == OnMessageWithin(raws, MaxHandlerUuid)

MsgCreateSession == OnMessage(CreateRaws)
MsgStart == OnMessage(StartRaws)
MsgJoin == OnMessage(JoinRaws)
MsgMarkWord == OnMessage(MarkRaws)
MsgInvalid == OnMessage(InvalidRaws)

\* a socket stops being open; its close event is handled in a later turn
SocketCloses ==
  \E ws \in Sockets :
    /\ readyState[ws] = "OPEN"
    /\ readyState' = [readyState EXCEPT ![ws] = "CLOSING"]
    /\ UNCHANGED <<game, session, uuidCount, last, roundLog, handlerKind, handler, sent,
                   relay, listeners, client, card>>

\* the close event: handleClose / the close listener of handleAdminConnection
OnClose ==
  \E ws \in Sockets :
    /\ readyState[ws] = "CLOSING"
    /\ readyState' = [readyState EXCEPT ![ws] = "CLOSED"]
    /\ \E o \in {IF handlerKind = "admin" THEN Admin_handleClose(handler, ws)
                 ELSE handleClose(handler, readyState', ws)} : Turn(o)

\* handlePlayerCommand, called by the relay client with any connection id
OnPlayerCommandWithin(raws, max) ==
  \E c \in ConnIds, raw \in raws, seeds \in DealSeeds :
    /\ handlerKind = "admin"
    /\ \E o \in {handlePlayerCommand(handler, readyState, c, raw, seeds, uuidCount)} :
         TurnWithin(o, max)
    /\ UNCHANGED readyState

OnPlayerCommand(raws) == OnPlayerCommandWithin(raws, MaxHandlerUuid)

PlayerJoin == OnPlayerCommand(JoinRaws)
PlayerMarkWord == OnPlayerCommand(MarkRaws)
PlayerOther == OnPlayerCommand(InvalidRaws \cup StartRaws)

\* handlePlayerConnected: a no-op
OnPlayerConnected ==
  \E c \in ConnIds :
    /\ handlerKind = "admin"
    /\ Turn(Out(handler, <<>>, 0))
    /\ UNCHANGED readyState

\* handlePlayerDisconnected
OnPlayerDisconnected ==
  \E c \in ConnIds :
    /\ handlerKind = "admin"
    /\ \E o \in {handlePlayerDisconnected(handler, readyState, c)} : Turn(o)
    /\ UNCHANGED readyState

NextHandler ==
  \/ Connect \/ MsgCreateSession \/ MsgStart \/ MsgJoin \/ MsgMarkWord \/ MsgInvalid
  \/ SocketCloses \/ OnClose
  \/ PlayerJoin \/ PlayerMarkWord \/ PlayerOther \/ OnPlayerConnected \/ OnPlayerDisconnected

SpecHandler == InitHandler /\ [][NextHandler]_vars

\* the handlers while a game is set up, started and joined late: the same
\* listeners, with room for the identifiers of a second player and card
LateCreateSession == OnMessageWithin(CreateRaws, MaxLateUuid)
LateStart == OnMessageWithin(StartRaws, MaxLateUuid)
LateJoin == OnMessageWithin(JoinRaws, MaxLateUuid)
LateMarkWord == OnMessageWithin(MarkRaws, MaxLateUuid)
LatePlayerJoin == OnPlayerCommandWithin(JoinRaws, MaxLateUuid)
LatePlayerMarkWord == OnPlayerCommandWithin(MarkRaws, MaxLateUuid)

NextLate ==
  \/ Connect \/ LateCreateSession \/ LateStart \/ LateJoin \/ LateMarkWord
  \/ LatePlayerJoin \/ LatePlayerMarkWord

SpecLate == InitHandler /\ [][NextLate]_vars

\* the handlers while rounds are played to a win: two players and their
\* cards, every player calling the corners of the card in reading order
MaxWinUuid == 5

WinNames == {<<"A", "l">>, <<"B", "o">>}
WinCreateRaws == {Raw("create_session", TRUE, sampleBuzzwords)}
WinJoinRaws == {Raw("join", TRUE, name) : name \in WinNames}

\* the mark_word command connection c sends next
NextMarkRaw(c) ==
  Raw("mark_word", TRUE,
      IF handler.session = NoSession \/ ~MapHas(handler.socketToPlayer, c) THEN RoundWords[1]
      ELSE NextWord(handler.session, MapGet(handler.socketToPlayer, c).playerId))

WinConnect ==
  \E ws \in Sockets :
    /\ readyState[ws] = "NONE"
    /\ readyState' = [readyState EXCEPT ![ws] = "OPEN"]
    /\ \E o \in {IF handlerKind = "admin" THEN handleAdminConnection(handler, ws)
                 ELSE Out(handler, <<>>, 0)} : TurnWithin(o, MaxWinUuid)

WinCreateSession == OnMessageWithin(WinCreateRaws, MaxWinUuid)
WinStart == OnMessageWithin({Raw("start_game", FALSE, <<>>)}, MaxWinUuid)
WinJoin == handlerKind = "unified" /\ OnMessageWithin(WinJoinRaws, MaxWinUuid)
WinPlayerJoin == OnPlayerCommandWithin(WinJoinRaws, MaxWinUuid)

WinMarkWord ==
  \E ws \in Sockets :
    /\ handlerKind = "unified"
    /\ readyState[ws] = "OPEN"
    /\ \E o \in {MessageOut(ws, NextMarkRaw(ws), [i \in 1..2 |-> 0])} :
         TurnWithin(o, MaxWinUuid)
    /\ UNCHANGED readyState

WinPlayerMarkWord ==
  \E c \in ConnIds :
    /\ handlerKind = "admin"
    /\ \E o \in {handlePlayerCommand(handler, readyState, c, NextMarkRaw(c),
                                      [i \in 1..2 |-> 0], uuidCount)} :
         TurnWithin(o, MaxWinUuid)
    /\ UNCHANGED readyState

\* the close event of an open socket, handled at once
WinClose ==
  \E ws \in Sockets :
    /\ readyState[ws] = "OPEN"
    /\ readyState' = [readyState EXCEPT ![ws] = "CLOSED"]
    /\ \E o \in {IF handlerKind = "admin" THEN Admin_handleClose(handler, ws)
                 ELSE handleClose(handler, readyState', ws)} : TurnWithin(o, MaxWinUuid)

NextWin ==
  \/ WinConnect \/ WinCreateSession \/ WinStart \/ WinJoin \/ WinPlayerJoin
  \/ WinMarkWord \/ WinPlayerMarkWord \/ WinClose

SpecWin == InitHandler /\ [][NextWin]_vars

\* ------------------------------------------------------------------ relay protocol
\* A raw relay message, as JSON.parse leaves it: json = FALSE is a text that is
\* no object; typed tells whether the fields the envelope needs are strings
\* (string arrays); id is its sessionId / connectionId / target field and
\* text its secret / command / event / message field.
RelayRaw(envelope, typed, id, text) ==
  [json |-> TRUE, envelope |-> envelope, typed |-> typed, id |-> id, text |-> text]

NoMessage == [envelope |-> "null"]

\* parseRelayMessage
parseRelayMessage(raw) ==
  IF ~raw.json THEN NoMessage
  ELSE IF ~raw.typed THEN NoMessage
  ELSE IF raw.envelope = "admin_register"
    THEN [envelope |-> "admin_register", sessionId |-> raw.id, secret |-> raw.text]
  ELSE IF raw.envelope = "admin_registered"
    THEN [envelope |-> "admin_registered", sessionId |-> raw.id]
  ELSE IF raw.envelope = "admin_error"
    THEN [envelope |-> "admin_error", message |-> raw.text]
  ELSE IF raw.envelope = "upstream"
    THEN [envelope |-> "upstream", connectionId |-> raw.id, command |-> raw.text]
  ELSE IF raw.envelope = "downstream"
    THEN [envelope |-> "downstream", target |-> raw.id, event |-> raw.text]
  ELSE IF raw.envelope = "broadcast"
    THEN [envelope |-> "broadcast", event |-> raw.text]
  ELSE IF raw.envelope \in {"player_connected", "player_disconnected"}
    THEN [envelope |-> raw.envelope, connectionId |-> raw.id]
  ELSE IF raw.envelope = "player_roster"
    THEN [envelope |-> "player_roster", connections |-> raw.id]
  ELSE NoMessage

\* JSON.stringify(msg) of a relay message or an event, as its parsed object
stringify(msg) == [json |-> TRUE, object |-> msg]

\* String.prototype.includes on texts kept as character sequences
includes(text, part) ==
  \E i \in 0..(Len(text) - Len(part)) : SubSeq(text, i + 1, i + Len(part)) = part

AdminAlreadyConnected ==
  <<"A", "d", "m", "i", "n", " ", "a", "l", "r", "e", "a", "d", "y", " ",
    "c", "o", "n", "n", "e", "c", "t", "e", "d">>
MustRegisterFirst ==
  <<"M", "u", "s", "t", " ", "r", "e", "g", "i", "s", "t", "e", "r", " ",
    "f", "i", "r", "s", "t">>
InvalidSecret ==
  <<"I", "n", "v", "a", "l", "i", "d", " ", "s", "e", "c", "r", "e", "t">>
HostDisconnected ==
  [type |-> "error", message |-> "Game host disconnected. Reconnecting..."]
NotAvailableYet ==
  [type |-> "error",
   message |-> "Game session not available yet. Please try again shortly."]

\* ------------------------------------------------------------------ relay handler
NewRelay ==
  [adminWs |-> NoSocket, adminRegistered |-> FALSE, playerConnections |-> <<>>,
   wsToConnectionId |-> <<>>]

RelayOut(r, msgs, attach) == [r |-> r, sent |-> msgs, attach |-> attach]

\* sendToAdmin of the relay
Relay_sendToAdmin(r, rs, msg) ==
  IF r.adminWs # NoSocket /\ rs[r.adminWs] = "OPEN"
  THEN <<[to |-> r.adminWs, data |-> stringify(msg)]>> ELSE <<>>

\* a send that does not look at the socket's readyState
Relay_sendToPlayer_always(rs, ws, data) == <<[to |-> ws, data |-> data]>>

\* sendToPlayer of the relay
Relay_sendToPlayer(rs, ws, data) ==
  IF rs[ws] = "OPEN" THEN <<[to |-> ws, data |-> data]>> ELSE <<>>

\* a send to every socket of playerConnections, in insertion order
Relay_sendToPlayers(r, rs, data) ==
  Flatten([i \in 1..Len(r.playerConnections) |->
             Relay_sendToPlayer(rs, r.playerConnections[i].value, data)])

\* Array.from(playerConnections.keys())
ConnectionKeys(r) == [i \in 1..Len(r.playerConnections) |-> r.playerConnections[i].key]

\* a comparison that accepts every secret
secretMatches_always(msg, secret) == TRUE

\* msg.secret !== secret, negated
secretMatches(msg, secret) == msg.secret = secret

\* handleAdminMessage of the relay
Relay_handleAdminMessage(r, rs, raw, secret) ==
  Bind(parseRelayMessage(raw), LAMBDA msg :
    IF msg = NoMessage THEN RelayOut(r, <<>>, FALSE)
    ELSE IF ~r.adminRegistered
    THEN IF msg.envelope # "admin_register"
         THEN RelayOut(r, Relay_sendToAdmin(r, rs, [envelope |-> "admin_error",
                                                     message |-> MustRegisterFirst]), FALSE)
         ELSE IF ~secretMatches(msg, secret)
         THEN RelayOut(r, Relay_sendToAdmin(r, rs, [envelope |-> "admin_error",
                                                     message |-> InvalidSecret]), FALSE)
         ELSE RelayOut([r EXCEPT !.adminRegistered = TRUE],
                       Relay_sendToAdmin(r, rs, [envelope |-> "admin_registered",
                                                 sessionId |-> msg.sessionId])
                         \o (IF Len(r.playerConnections) > 0
                             THEN Relay_sendToAdmin(r, rs, [envelope |-> "player_roster",
                                                            connections |-> ConnectionKeys(r)])
                             ELSE <<>>),
                       FALSE)
    ELSE IF msg.envelope = "downstream"
    THEN RelayOut(r, IF MapHas(r.playerConnections, msg.target)
                     THEN Relay_sendToPlayer(rs, MapGet(r.playerConnections, msg.target),
                                             msg.event)
                     ELSE <<>>, FALSE)
    ELSE IF msg.envelope = "broadcast"
    THEN RelayOut(r, Relay_sendToPlayers(r, rs, msg.event), FALSE)
    ELSE RelayOut(r, <<>>, FALSE))

\* a test that never finds an admin connected
adminOpen_never(r, rs) == FALSE

\* adminWs && adminWs.readyState === adminWs.OPEN
adminOpen(r, rs) == r.adminWs # NoSocket /\ rs[r.adminWs] = "OPEN"

\* handleAdminConnection of the relay; attach tells whether listeners were
\* put on the socket
Relay_handleAdminConnection(r, rs, ws) ==
  IF adminOpen(r, rs)
  THEN RelayOut(r, <<[to |-> ws, data |-> stringify([envelope |-> "admin_error",
                                                      message |-> AdminAlreadyConnected])]>>,
                FALSE)
  ELSE RelayOut([r EXCEPT !.adminWs = ws, !.adminRegistered = FALSE], <<>>, TRUE)

\* the close listener of handleAdminConnection
Relay_adminClose(r, rs, ws) ==
  IF ws = r.adminWs
  THEN RelayOut([r EXCEPT !.adminWs = NoSocket, !.adminRegistered = FALSE],
                Relay_sendToPlayers(r, rs, stringify(HostDisconnected)), FALSE)
  ELSE RelayOut(r, <<>>, FALSE)

\* a connection handler that hands every player the same identifier
Relay_handlePlayerConnection_sameId(r, rs, ws, n) ==
  IF r.adminWs = NoSocket \/ ~r.adminRegistered
  THEN RelayOut(r, <<[to |-> ws, data |-> stringify(NotAvailableYet)]>>, FALSE)
  ELSE Bind([r EXCEPT !.playerConnections = MapSet(@, randomUUID(1), ws),
                      !.wsToConnectionId = MapSet(@, ws, randomUUID(1))], LAMBDA r1 :
         RelayOut(r1, Relay_sendToAdmin(r1, rs, [envelope |-> "player_connected",
                                                 connectionId |-> randomUUID(1)]), TRUE))

\* handlePlayerConnection; n is the number of identifiers handed out so far
Relay_handlePlayerConnection(r, rs, ws, n) ==
  IF r.adminWs = NoSocket \/ ~r.adminRegistered
  THEN RelayOut(r, <<[to |-> ws, data |-> stringify(NotAvailableYet)]>>, FALSE)
  ELSE Bind(randomUUID(n + 1), LAMBDA connectionId :
         Bind([r EXCEPT !.playerConnections = MapSet(@, connectionId, ws),
                        !.wsToConnectionId = MapSet(@, ws, connectionId)], LAMBDA r1 :
           RelayOut(r1, Relay_sendToAdmin(r1, rs, [envelope |-> "player_connected",
                                                   connectionId |-> connectionId]), TRUE)))

\* the message listener of handlePlayerConnection
Relay_playerMessage(r, rs, connectionId, data) ==
  RelayOut(r, Relay_sendToAdmin(r, rs, [envelope |-> "upstream",
                                        connectionId |-> connectionId,
                                        command |-> data]), FALSE)

\* a close listener that announces the player gone but keeps the map entries
Relay_playerClose_keep(r, rs, ws, connectionId) ==
  RelayOut(r, Relay_sendToAdmin(r, rs, [envelope |-> "player_disconnected",
                                        connectionId |-> connectionId]), FALSE)

\* the close listener of handlePlayerConnection
Relay_playerClose(r, rs, ws, connectionId) ==
  Bind([r EXCEPT !.playerConnections = MapDelete(@, connectionId),
                 !.wsToConnectionId = MapDelete(@, ws)], LAMBDA r1 :
    RelayOut(r1, Relay_sendToAdmin(r1, rs, [envelope |-> "player_disconnected",
                                            connectionId |-> connectionId]), FALSE))

\* ------------------------------------------------------------------ relay state machine
\* sockets by the path they connect at: /admin and /
AdminSockets == {"a1", "a2"}
PlayerSockets == {"p1", "p2"}
RelaySockets == AdminSockets \cup PlayerSockets

\* the shared secret createRelayHandler is given, and another one
Secret == "secret"
WrongSecret == "wrong"
SessionIds == {<<"s">>}
Payloads == {"payload"}

\* what a socket carries once a connection handler attached its listeners: the
\* handler kind and the closure's connectionId; registered (the socket was
\* answered admin_registered) and admin (the admin socket a player was
\* accepted under) are kept for observation only
NoListener == [on |-> "none", connectionId |-> <<>>, registered |-> FALSE, admin |-> NoSocket]

RegisterRaws ==
  {RelayRaw("admin_register", TRUE, sid, sec) : sid \in SessionIds, sec \in {Secret, WrongSecret}}
TargetIds == {randomUUID(1), randomUUID(2), randomUUID(9)}
DownstreamRaws == {RelayRaw("downstream", TRUE, t, e) : t \in TargetIds, e \in Payloads}
BroadcastRaws == {RelayRaw("broadcast", TRUE, <<>>, e) : e \in Payloads}
OtherRaws ==
  {RelayRaw("upstream", TRUE, randomUUID(1), "payload"),
   RelayRaw("player_roster", TRUE, <<>>, ""),
   RelayRaw("admin_registered", TRUE, <<"s">>, ""),
   RelayRaw("admin_register", FALSE, <<"s">>, Secret),
   RelayRaw("unknown", TRUE, <<>>, ""),
   [json |-> FALSE, envelope |-> "", typed |-> FALSE, id |-> <<>>, text |-> ""]}
\* the well-formed envelopes that are no admin_register
NonRegisterRaws ==
  DownstreamRaws \cup BroadcastRaws
    \cup {raw \in OtherRaws : parseRelayMessage(raw) # NoMessage}

InitRelay ==
  /\ game = NoGame
  /\ session = NoSession
  /\ uuidCount = 0
  /\ last = [op |-> "new"]
  /\ roundLog = NewRoundLog
  /\ handlerKind = "relay"
  /\ handler = [session |-> NoSession]
  /\ readyState = [w \in RelaySockets |-> "NONE"]
  /\ sent = <<>>
  /\ relay = NewRelay
  /\ listeners = [w \in RelaySockets |-> NoListener]
  /\ client = [ws |-> "null"]
  /\ card = NoCard

\* one relay turn with outcome o, run by event op of socket ws
RelayTurn(o, op, ws) ==
  /\ relay' = o.r
  /\ sent' = o.sent
  /\ last' = [op |-> op, ws |-> ws]
  /\ UNCHANGED <<game, session, roundLog, handlerKind, handler, client, card>>

\* a connection at /admin
AdminConnect ==
  \E ws \in AdminSockets :
    /\ readyState[ws] = "NONE"
    /\ readyState' = [readyState EXCEPT ![ws] = "OPEN"]
    /\ \E o \in {Relay_handleAdminConnection(relay, readyState', ws)} :
         /\ RelayTurn(o, "adminConnection", ws)
         /\ listeners' = IF o.attach THEN [listeners EXCEPT ![ws].on = "admin"] ELSE listeners
    /\ UNCHANGED uuidCount

\* a connection at /
PlayerConnect ==
  \E ws \in PlayerSockets :
    /\ readyState[ws] = "NONE"
    /\ readyState' = [readyState EXCEPT ![ws] = "OPEN"]
    /\ \E o \in {Relay_handlePlayerConnection(relay, readyState', ws, uuidCount)} :
         /\ RelayTurn(o, "playerConnection", ws)
         /\ listeners' = IF o.attach
                         THEN [listeners EXCEPT ![ws].on = "player",
                                                ![ws].connectionId = randomUUID(uuidCount + 1),
                                                ![ws].admin = relay.adminWs]
                         ELSE listeners
         /\ uuidCount' = IF o.attach THEN uuidCount + 1 ELSE uuidCount

\* the message listener of an accepted admin socket
AdminMessage(raws) ==
  \E ws \in AdminSockets, raw \in raws :
    /\ readyState[ws] = "OPEN"
    /\ listeners[ws].on = "admin"
    /\ \E o \in {Relay_handleAdminMessage(relay, readyState, raw, Secret)} :
         /\ RelayTurn(o, "adminMessage", ws)
         /\ listeners' = IF o.r.adminRegistered /\ ~relay.adminRegistered
                         THEN [listeners EXCEPT ![ws].registered = TRUE] ELSE listeners
    /\ UNCHANGED <<uuidCount, readyState>>

AdminRegister == AdminMessage(RegisterRaws)
AdminDownstream == AdminMessage(DownstreamRaws)
AdminBroadcast == AdminMessage(BroadcastRaws)
AdminOther == AdminMessage(OtherRaws)

\* the message listener of an accepted player socket
PlayerMessage ==
  \E ws \in PlayerSockets, data \in Payloads :
    /\ readyState[ws] = "OPEN"
    /\ listeners[ws].on = "player"
    /\ \E o \in {Relay_playerMessage(relay, readyState, listeners[ws].connectionId, data)} :
         RelayTurn(o, "playerMessage", ws)
    /\ UNCHANGED <<uuidCount, readyState, listeners>>

\* a message on a socket the relay attached no listener to: no turn runs
UnheardMessage ==
  \E ws \in RelaySockets :
    /\ readyState[ws] = "OPEN"
    /\ listeners[ws].on = "none"
    /\ RelayTurn(RelayOut(relay, <<>>, FALSE), "unheardMessage", ws)
    /\ UNCHANGED <<uuidCount, readyState, listeners>>

\* a socket stops being open; its close event is emitted in a later turn
RelaySocketCloses ==
  \E ws \in RelaySockets :
    /\ readyState[ws] = "OPEN"
    /\ readyState' = [readyState EXCEPT ![ws] = "CLOSING"]
    /\ last' = [op |-> "socketCloses", ws |-> ws]
    /\ UNCHANGED <<game, session, uuidCount, roundLog, handlerKind, handler, sent,
                   relay, listeners, client, card>>

\* the close event of an admin socket
AdminClose ==
  \E ws \in AdminSockets :
    /\ readyState[ws] = "CLOSING"
    /\ readyState' = [readyState EXCEPT ![ws] = "CLOSED"]
    /\ \E o \in {IF listeners[ws].on = "admin" THEN Relay_adminClose(relay, readyState', ws)
                 ELSE RelayOut(relay, <<>>, FALSE)} : RelayTurn(o, "close", ws)
    /\ UNCHANGED <<uuidCount, listeners>>

\* the close event of a player socket
PlayerClose ==
  \E ws \in PlayerSockets :
    /\ readyState[ws] = "CLOSING"
    /\ readyState' = [readyState EXCEPT ![ws] = "CLOSED"]
    /\ \E o \in {IF listeners[ws].on = "player"
                 THEN Relay_playerClose(relay, readyState', ws, listeners[ws].connectionId)
                 ELSE RelayOut(relay, <<>>, FALSE)} : RelayTurn(o, "close", ws)
    /\ UNCHANGED <<uuidCount, listeners>>

NextRelay ==
  \/ AdminConnect \/ PlayerConnect
  \/ AdminRegister \/ AdminDownstream \/ AdminBroadcast \/ AdminOther
  \/ PlayerMessage \/ UnheardMessage
  \/ RelaySocketCloses \/ AdminClose \/ PlayerClose

SpecRelay == InitRelay /\ [][NextRelay]_vars

\* ------------------------------------------------------------------ admin relay client
\* The closure variables of createAdminRelayClient, with what the model keeps
\* beside them: timers, the setTimeout callbacks not yet run or cleared, each
\* with the args it closed over; reported, the last argument of
\* opts.onStatusChange; args, per socket, the sessionId its doConnect call
\* closed over; first, per socket, the first envelope sent on it; byTimer,
\* per socket, whether a reconnect timer created it.
NoArgs == "null"
NoTimer == 0
FiredTimer == -1
MaxClientSockets == 2
SocketOrder == SubSeq(<<"r1", "r2", "r3", "r4">>, 1, MaxClientSockets)
ClientSockets == {SocketOrder[i] : i \in 1..Len(SocketOrder)}
TimerIds == 1..MaxClientSockets

NewClient ==
  [ws |-> NoSocket, status |-> "disconnected", shouldReconnect |-> FALSE,
   reconnectTimer |-> NoTimer, connectArgs |-> NoArgs, timers |-> {},
   reported |-> "none",
   args |-> [s \in ClientSockets |-> NoArgs],
   first |-> [s \in ClientSockets |-> "none"],
   byTimer |-> [s \in ClientSockets |-> FALSE]]

ClientOut(c, rs, msgs, threw) == [c |-> c, rs |-> rs, sent |-> msgs, threw |-> threw]

\* setStatus
setStatus(c, newStatus) == [c EXCEPT !.status = newStatus, !.reported = newStatus]

\* ws.send(data) on socket target: a TypeError on null, the ws library's
\* error on a socket still connecting, nothing on one that is closing
Client_send(c, rs, target, msg) ==
  IF target = NoSocket \/ rs[target] = "CONNECTING" THEN ClientOut(c, rs, <<>>, TRUE)
  ELSE IF rs[target] # "OPEN" THEN ClientOut(c, rs, <<>>, FALSE)
  ELSE ClientOut([c EXCEPT !.first[target] = IF @ = "none" THEN msg.envelope ELSE @],
                 rs, <<[to |-> target, data |-> stringify(msg)]>>, FALSE)

\* doConnect up to the listeners; s is the socket createWs returns
doConnect(c, rs, sessionId, s) ==
  ClientOut([setStatus([c EXCEPT !.connectArgs = sessionId, !.shouldReconnect = TRUE],
                       "connecting")
               EXCEPT !.ws = s, !.args[s] = sessionId, !.first[s] = "none",
                      !.byTimer[s] = FALSE],
            [rs EXCEPT ![s] = "CONNECTING"], <<>>, FALSE)

\* the open listener of socket s: it sends on ws, the current socket
Client_onOpen(c, rs, s, secret) ==
  Client_send(c, rs, c.ws, [envelope |-> "admin_register", sessionId |-> c.args[s],
                            secret |-> secret])

\* the message listener
Client_onMessage(c, rs, raw) ==
  Bind(parseRelayMessage(raw), LAMBDA msg :
    IF msg = NoMessage THEN ClientOut(c, rs, <<>>, FALSE)
    ELSE IF msg.envelope = "admin_registered"
    THEN ClientOut(setStatus(c, "connected"), rs, <<>>, FALSE)
    ELSE ClientOut(c, rs, <<>>, FALSE))

\* the identifier setTimeout returns
NewTimerId(c) == CHOOSE i \in TimerIds :
  /\ i \notin {t.id : t \in c.timers}
  /\ \A j \in TimerIds : j < i => j \in {t.id : t \in c.timers}

\* the close listener
Client_onClose(c, rs) ==
  Bind(setStatus([c EXCEPT !.ws = NoSocket], "disconnected"), LAMBDA c1 :
    IF c1.shouldReconnect /\ c1.connectArgs # NoArgs
    THEN ClientOut([c1 EXCEPT !.reconnectTimer = NewTimerId(c1),
                              !.timers = @ \cup {[id |-> NewTimerId(c1),
                                                  sessionId |-> c1.connectArgs]}],
                   rs, <<>>, FALSE)
    ELSE ClientOut(c1, rs, <<>>, FALSE))

\* the setTimeout callback t runs
Client_onTimer(c, rs, t, s) ==
  Bind(doConnect([c EXCEPT !.timers = @ \ {t},
                           !.reconnectTimer = IF @ = t.id THEN FiredTimer ELSE @],
                 rs, t.sessionId, s), LAMBDA o :
    [o EXCEPT !.c.byTimer[s] = TRUE])

\* ws.close(): the socket stops being open, its close event comes later
Client_close(rs, s) == IF rs[s] \in {"CONNECTING", "OPEN"} THEN [rs EXCEPT ![s] = "CLOSING"] ELSE rs

\* disconnect
Client_disconnect(c, rs) ==
  Bind([c EXCEPT !.shouldReconnect = FALSE,
                 !.timers = IF c.reconnectTimer # NoTimer
                            THEN {t \in @ : t.id # c.reconnectTimer} ELSE @,
                 !.reconnectTimer = NoTimer], LAMBDA c1 :
    ClientOut(setStatus([c1 EXCEPT !.ws = NoSocket], "disconnected"),
              IF c1.ws # NoSocket THEN Client_close(rs, c1.ws) ELSE rs, <<>>, FALSE))

\* a test that takes any socket for an open one
isOpen_always(c, rs) == c.ws # NoSocket

\* ws && ws.readyState === ws.OPEN
isOpen(c, rs) == c.ws # NoSocket /\ rs[c.ws] = "OPEN"

\* sendToPlayer of the client
Client_sendToPlayer(c, rs, connectionId, event) ==
  IF isOpen(c, rs)
  THEN ClientOut([c EXCEPT !.first[c.ws] = IF @ = "none" THEN "downstream" ELSE @], rs,
                 <<[to |-> c.ws, data |-> stringify([envelope |-> "downstream",
                                                     target |-> connectionId,
                                                     event |-> event])]>>, FALSE)
  ELSE ClientOut(c, rs, <<>>, FALSE)

\* broadcastToPlayers
Client_broadcastToPlayers(c, rs, event) ==
  IF isOpen(c, rs)
  THEN ClientOut([c EXCEPT !.first[c.ws] = IF @ = "none" THEN "broadcast" ELSE @], rs,
                 <<[to |-> c.ws, data |-> stringify([envelope |-> "broadcast",
                                                     event |-> event])]>>, FALSE)
  ELSE ClientOut(c, rs, <<>>, FALSE)

\* ------------------------------------------------------------------ admin relay client state machine
SessionArgs == {"sess-1", "sess-2"}
ClientSecret == "my-secret"

\* the socket createWs returns: one that does not exist yet
createWs(rs) ==
  SocketOrder[CHOOSE i \in 1..Len(SocketOrder) :
                /\ rs[SocketOrder[i]] = "NONE"
                /\ \A j \in 1..(i - 1) : rs[SocketOrder[j]] # "NONE"]

\* sockets that exist, and the room left for one more beside those the
\* pending timers will create
Live(rs) == {s \in ClientSockets : rs[s] # "NONE"}
HasRoom == Cardinality(Live(readyState)) + Cardinality(client.timers) < MaxClientSockets

RegisteredRaws == {RelayRaw("admin_registered", TRUE, <<"s">>, "")}
FromRelayRaws ==
  {RelayRaw("upstream", TRUE, randomUUID(1), "payload"),
   RelayRaw("player_connected", TRUE, randomUUID(1), ""),
   RelayRaw("player_disconnected", TRUE, randomUUID(1), ""),
   RelayRaw("admin_error", TRUE, <<>>, "Invalid secret"),
   RelayRaw("admin_registered", FALSE, <<>>, ""),
   [json |-> FALSE, envelope |-> "", typed |-> FALSE, id |-> <<>>, text |-> ""]}

InitClient ==
  /\ game = NoGame
  /\ session = NoSession
  /\ uuidCount = 0
  /\ last = [op |-> "new"]
  /\ roundLog = NewRoundLog
  /\ handlerKind = "client"
  /\ handler = [session |-> NoSession]
  /\ readyState = [s \in ClientSockets |-> "NONE"]
  /\ sent = <<>>
  /\ relay = [adminWs |-> "null"]
  /\ listeners = <<>>
  /\ client = NewClient
  /\ card = NoCard

\* one turn of the client with outcome o, run by call or event op of socket ws
ClientTurn(o, op, ws) ==
  /\ client' = o.c
  /\ readyState' = o.rs
  /\ sent' = o.sent
  /\ last' = [op |-> op, ws |-> ws, threw |-> o.threw]
  /\ UNCHANGED <<game, session, uuidCount, roundLog, handlerKind, handler, relay, listeners,
                 card>>

\* connect(relayUrl, sessionId, secret)
ClientConnect ==
  \E sessionId \in SessionArgs :
    /\ HasRoom
    /\ ClientTurn(doConnect(client, readyState, sessionId, createWs(readyState)),
                  "connect", createWs(readyState))

\* disconnect()
ClientDisconnect ==
  \E ws \in {client.ws} : ClientTurn(Client_disconnect(client, readyState), "disconnect", ws)

\* the open event of a socket
ClientOpen ==
  \E s \in ClientSockets :
    /\ readyState[s] = "CONNECTING"
    /\ ClientTurn(Client_onOpen(client, [readyState EXCEPT ![s] = "OPEN"], s, ClientSecret),
                  "open", s)

\* a message event of an open socket
ClientMessage(raws) ==
  \E s \in ClientSockets, raw \in raws :
    /\ readyState[s] = "OPEN"
    /\ ClientTurn(Client_onMessage(client, readyState, raw), "message", s)

\* the relay answers admin_registered only to a socket that registered
ClientRegistered ==
  \E s \in ClientSockets, raw \in RegisteredRaws :
    /\ readyState[s] = "OPEN"
    /\ client.first[s] = "admin_register"
    /\ ClientTurn(Client_onMessage(client, readyState, raw), "admin_registered", s)

ClientFromRelay == ClientMessage(FromRelayRaws)

\* a socket stops being connecting or open; its close event comes later
ClientSocketFails ==
  \E s \in ClientSockets :
    /\ readyState[s] \in {"CONNECTING", "OPEN"}
    /\ readyState' = [readyState EXCEPT ![s] = "CLOSING"]
    /\ last' = [op |-> "socketFails", ws |-> s, threw |-> FALSE]
    /\ UNCHANGED <<game, session, uuidCount, roundLog, handlerKind, handler, sent,
                   relay, listeners, client, card>>

\* the close event of a socket, after which the socket is gone
ClientClose ==
  \E s \in ClientSockets :
    /\ readyState[s] = "CLOSING"
    /\ ClientTurn(Client_onClose(client, [readyState EXCEPT ![s] = "NONE"]), "close", s)

\* a reconnect timer expires
ClientTimer ==
  \E t \in client.timers :
    ClientTurn(Client_onTimer(client, readyState, t, createWs(readyState)),
               "timer", createWs(readyState))

\* sendToPlayer(connectionId, event)
ClientSendToPlayer ==
  \E event \in Payloads, connectionId \in {randomUUID(1)} :
    ClientTurn(Client_sendToPlayer(client, readyState, connectionId, event),
               "sendToPlayer", client.ws)

\* broadcastToPlayers(event)
ClientBroadcast ==
  \E event \in Payloads :
    ClientTurn(Client_broadcastToPlayers(client, readyState, event),
               "broadcastToPlayers", client.ws)

NextClient ==
  \/ ClientConnect \/ ClientDisconnect \/ ClientOpen \/ ClientRegistered \/ ClientFromRelay
  \/ ClientSocketFails \/ ClientClose \/ ClientTimer \/ ClientSendToPlayer \/ ClientBroadcast

SpecClient == InitClient /\ [][NextClient]_vars

\* setTimeout callbacks that are not cleared run after their delay
SpecClientLive == SpecClient /\ WF_vars(ClientTimer)

\* ------------------------------------------------------------------ relay and admin process together
\* The relay, and behind it the admin process of admin-main.ts: the relay
\* client hands every envelope the relay sends to the admin socket to the
\* callbacks admin-main.ts gave it, in the turn that sent it.  What the
\* handler sends back is kept in sent and not routed to the players.
MaxResyncUuid == 4

\* the socket of the admin page, local to the admin process
UiSocket == "ui"
ResyncSockets == RelaySockets \cup {UiSocket}

\* the text of a relay message as parseRelayMessage reads it
RelayText(msg) ==
  IF msg.envelope = "admin_registered" THEN RelayRaw(msg.envelope, TRUE, msg.sessionId, "")
  ELSE IF msg.envelope = "admin_error" THEN RelayRaw(msg.envelope, TRUE, <<>>, msg.message)
  ELSE IF msg.envelope = "upstream"
    THEN RelayRaw(msg.envelope, TRUE, msg.connectionId, msg.command)
  ELSE IF msg.envelope \in {"player_connected", "player_disconnected"}
    THEN RelayRaw(msg.envelope, TRUE, msg.connectionId, "")
  ELSE RelayRaw(msg.envelope, TRUE, msg.connections, "")

\* the message listener of the relay client, with the callbacks of admin-main.ts
Main_onMessage(h, rs, data, seeds, n) ==
  Bind(parseRelayMessage(RelayText(data.object)), LAMBDA msg :
    IF msg = NoMessage THEN Out(h, <<>>, 0)
    ELSE IF msg.envelope = "upstream"
      THEN handlePlayerCommand(h, rs, msg.connectionId, msg.command, seeds, n)
    ELSE IF msg.envelope = "player_disconnected"
      THEN handlePlayerDisconnected(h, rs, msg.connectionId)
    ELSE Out(h, <<>>, 0))

\* the messages msgs of one relay turn, each handled by the admin process
RECURSIVE Main_deliver(_, _, _, _, _)
Main_deliver(h, rs, msgs, seeds, n) ==
  IF msgs = <<>> THEN Out(h, <<>>, 0)
  ELSE IF Head(msgs).to \notin AdminSockets THEN Main_deliver(h, rs, Tail(msgs), seeds, n)
  ELSE Bind(Main_onMessage(h, rs, Head(msgs).data, seeds, n), LAMBDA o1 :
       Bind(Main_deliver(o1.h, rs, Tail(msgs), seeds, n + o1.used), LAMBDA o2 :
         Out(o2.h, o1.sent \o o2.sent, o1.used + o2.used)))

InitResync ==
  /\ game = NoGame
  /\ session = NoSession
  /\ uuidCount = 0
  /\ last = [op |-> "new"]
  /\ roundLog = NewRoundLog
  /\ handlerKind = "admin"
  /\ handler = NewHandler
  /\ readyState = [w \in ResyncSockets |-> "NONE"]
  /\ sent = <<>>
  /\ relay = NewRelay
  /\ listeners = [w \in RelaySockets |-> NoListener]
  /\ client = [ws |-> "null"]
  /\ card = NoCard

\* one relay turn with outcome o, of which used
\* identifiers were drawn, and the admin process's handling of what it sent
ResyncTurn(o, used) ==
  \E seeds \in {[i \in 1..2 |-> 1]} :
    \E a \in {Main_deliver(handler, readyState', o.sent, seeds, uuidCount + used)} :
      /\ uuidCount + used + a.used <= MaxResyncUuid
      /\ relay' = o.r
      /\ handler' = a.h
      /\ sent' = o.sent \o a.sent
      /\ uuidCount' = uuidCount + used + a.used
      /\ UNCHANGED <<game, session, last, roundLog, handlerKind, client, card>>

\* one turn of the admin-side handler alone, with outcome o
ResyncUiTurn(o) ==
  /\ uuidCount + o.used <= MaxResyncUuid
  /\ handler' = o.h
  /\ sent' = o.sent
  /\ uuidCount' = uuidCount + o.used
  /\ UNCHANGED <<game, session, last, roundLog, handlerKind, relay, listeners, client, card>>

\* the admin page connects: wss.on('connection') of admin-main.ts
ResyncUiConnect ==
  /\ readyState[UiSocket] = "NONE"
  /\ readyState' = [readyState EXCEPT ![UiSocket] = "OPEN"]
  /\ ResyncUiTurn(handleAdminConnection(handler, UiSocket))

\* the admin page creates the session
ResyncCreateSession ==
  /\ readyState[UiSocket] = "OPEN"
  /\ \E raw \in WinCreateRaws, seeds \in {[i \in 1..2 |-> 1]} :
       \E o \in {handleAdminMessage(handler, readyState, UiSocket, raw, seeds, uuidCount)} :
         ResyncUiTurn(o)
  /\ UNCHANGED readyState

\* the socket the relay client holds, one at a time
ResyncAdminSockets == {"a1"}

\* the relay client's socket connects at /admin, a new socket each time
ResyncAdminConnect ==
  \E ws \in ResyncAdminSockets :
    /\ readyState[ws] \in {"NONE", "CLOSED"}
    /\ readyState' = [readyState EXCEPT ![ws] = "OPEN"]
    /\ \E o \in {Relay_handleAdminConnection(relay, readyState', ws)} :
         /\ ResyncTurn(o, 0)
         /\ listeners' = [listeners EXCEPT ![ws] =
                            IF o.attach THEN [NoListener EXCEPT !.on = "admin"]
                            ELSE NoListener]

\* the open listener of the relay client: admin_register reaches the relay
ResyncAdminRegister ==
  \E ws \in ResyncAdminSockets, sid \in SessionIds :
    /\ readyState[ws] = "OPEN"
    /\ listeners[ws].on = "admin"
    /\ ~listeners[ws].registered
    /\ UNCHANGED readyState
    /\ \E o \in {Relay_handleAdminMessage(relay, readyState,
                                          RelayRaw("admin_register", TRUE, sid, Secret),
                                          Secret)} :
         /\ ResyncTurn(o, 0)
         /\ listeners' = IF o.r.adminRegistered /\ ~relay.adminRegistered
                         THEN [listeners EXCEPT ![ws].registered = TRUE] ELSE listeners

\* a player connects at /
ResyncPlayerConnect ==
  \E ws \in PlayerSockets :
    /\ readyState[ws] = "NONE"
    /\ readyState' = [readyState EXCEPT ![ws] = "OPEN"]
    /\ \E o \in {Relay_handlePlayerConnection(relay, readyState', ws, uuidCount)} :
         /\ ResyncTurn(o, IF o.attach THEN 1 ELSE 0)
         /\ listeners' = IF o.attach
                         THEN [listeners EXCEPT ![ws].on = "player",
                                                ![ws].connectionId = randomUUID(uuidCount + 1),
                                                ![ws].admin = relay.adminWs]
                         ELSE listeners

\* the screen name the player at socket ws asks for
ResyncName(ws) == IF ws = "p1" THEN <<"A", "l">> ELSE <<"B", "o">>

\* a connected player who has not joined sends join
ResyncPlayerJoin ==
  \E ws \in PlayerSockets :
    /\ readyState[ws] = "OPEN"
    /\ listeners[ws].on = "player"
    /\ ~MapHas(handler.socketToPlayer, listeners[ws].connectionId)
    /\ UNCHANGED <<readyState, listeners>>
    /\ \E o \in {Relay_playerMessage(relay, readyState, listeners[ws].connectionId,
                                     Raw("join", TRUE, ResyncName(ws)))} :
         ResyncTurn(o, 0)

\* a relay socket stops being open; its close event is emitted in a later turn
ResyncSocketCloses ==
  \E ws \in ResyncAdminSockets \cup PlayerSockets :
    /\ readyState[ws] = "OPEN"
    /\ readyState' = [readyState EXCEPT ![ws] = "CLOSING"]
    /\ UNCHANGED <<game, session, uuidCount, last, roundLog, handlerKind, handler, sent,
                   relay, listeners, client, card>>

\* the close event of an admin socket at the relay
ResyncAdminClose ==
  \E ws \in ResyncAdminSockets :
    /\ readyState[ws] = "CLOSING"
    /\ readyState' = [readyState EXCEPT ![ws] = "CLOSED"]
    /\ \E o \in {IF listeners[ws].on = "admin" THEN Relay_adminClose(relay, readyState', ws)
                 ELSE RelayOut(relay, <<>>, FALSE)} : ResyncTurn(o, 0)
    /\ UNCHANGED listeners

\* the close event of a player socket at the relay
ResyncPlayerClose ==
  \E ws \in PlayerSockets :
    /\ readyState[ws] = "CLOSING"
    /\ readyState' = [readyState EXCEPT ![ws] = "CLOSED"]
    /\ \E o \in {IF listeners[ws].on = "player"
                 THEN Relay_playerClose(relay, readyState', ws, listeners[ws].connectionId)
                 ELSE RelayOut(relay, <<>>, FALSE)} : ResyncTurn(o, 0)
    /\ UNCHANGED listeners

NextResync ==
  \/ ResyncUiConnect \/ ResyncCreateSession
  \/ ResyncAdminConnect \/ ResyncAdminRegister
  \/ ResyncPlayerConnect \/ ResyncPlayerJoin
  \/ ResyncSocketCloses \/ ResyncAdminClose \/ ResyncPlayerClose

SpecResync == InitResync /\ [][NextResync]_vars

\* close events are emitted, and the relay client connects and registers again
SpecResyncLive ==
  /\ SpecResync
  /\ WF_vars(ResyncAdminClose) /\ WF_vars(ResyncPlayerClose)
  /\ WF_vars(ResyncAdminConnect) /\ WF_vars(ResyncAdminRegister)

\* ------------------------------------------------------------------ JSON
\* JavaScript values carry their type. The characters of a string are kept
\* as a sequence whose members are single characters or unbroken runs of
\* characters that need no escape (a type name such as "join" is one run).
JsString(s) == [t |-> "string", s |-> s]
JsNumber(n) == [t |-> "number", n |-> n]
JsBoolean(b) == [t |-> "boolean", b |-> b]
JsUndefined == [t |-> "undefined"]
JsNull == [t |-> "null"]
JsArray(items) == [t |-> "array", items |-> items]
JsObject(o) == [t |-> "object", o |-> o]

\* A JSON text is kept as its syntax tree: arrays and objects as nodes, every
\* scalar as the token written in the text (a quoted and escaped string, the
\* digits of a number, true, false, null).
Token(chars) == [t |-> "token", chars |-> chars]
NoText == [t |-> "none"]
Quotation == "\""
Backslash == "\\"

RECURSIVE Escape(_)
Escape(s) ==
  IF s = <<>> THEN <<>>
  ELSE (IF Head(s) \in {Quotation, Backslash} THEN <<Backslash, Head(s)>> ELSE <<Head(s)>>)
       \o Escape(Tail(s))

RECURSIVE Unescape(_)
Unescape(s) ==
  IF s = <<>> THEN <<>>
  ELSE IF Head(s) = Backslash /\ Len(s) >= 2
    THEN <<s[2]>> \o Unescape(SubSeq(s, 3, Len(s)))
  ELSE <<Head(s)>> \o Unescape(Tail(s))

Quote(s) == <<Quotation>> \o Escape(s) \o <<Quotation>>

\* a string literal read without undoing its escapes
Unquote_keepEscapes(chars) == SubSeq(chars, 2, Len(chars) - 1)

\* the string a string literal stands for
Unquote(chars) == Unescape(SubSeq(chars, 2, Len(chars) - 1))

RECURSIVE ParseDecimal(_)
ParseDecimal(chars) ==
  IF chars = <<>> THEN 0
  ELSE 10 * ParseDecimal(SubSeq(chars, 1, Len(chars) - 1))
       + (CHOOSE d \in 0..9 : Digits[d + 1] = chars[Len(chars)])

\* JSON.stringify: a property whose value is undefined is left out, an
\* undefined array element is written as null
RECURSIVE JSON_stringify(_)
JSON_stringify(v) ==
  CASE v.t = "string" -> Token(Quote(v.s))
    [] v.t = "number" -> Token(Decimal(v.n))
    [] v.t = "boolean" -> Token(IF v.b THEN <<"true">> ELSE <<"false">>)
    [] v.t = "null" -> Token(<<"null">>)
    [] v.t = "array" ->
         [t |-> "array",
          items |-> [i \in 1..Len(v.items) |->
                      IF v.items[i].t = "undefined" THEN Token(<<"null">>)
                      ELSE JSON_stringify(v.items[i])]]
    [] v.t = "object" ->
         [t |-> "object",
          members |-> [k \in {m \in DOMAIN v.o : v.o[m].t # "undefined"} |->
                        JSON_stringify(v.o[k])]]
    [] OTHER -> NoText

\* JSON.parse of a text that is valid JSON
RECURSIVE JSON_parse(_)
JSON_parse(text) ==
  CASE text.t = "token" ->
         IF Head(text.chars) = Quotation THEN JsString(Unquote(text.chars))
         ELSE IF text.chars = <<"true">> THEN JsBoolean(TRUE)
         ELSE IF text.chars = <<"false">> THEN JsBoolean(FALSE)
         ELSE IF text.chars = <<"null">> THEN JsNull
         ELSE JsNumber(ParseDecimal(text.chars))
    [] text.t = "array" ->
         JsArray([i \in 1..Len(text.items) |-> JSON_parse(text.items[i])])
    [] text.t = "object" ->
         JsObject([k \in DOMAIN text.members |-> JSON_parse(text.members[k])])
    [] OTHER -> JsUndefined

\* a value without its undefined properties: two values are equal for
\* toEqual when they are the same once these are left out
RECURSIVE Defined(_)
Defined(v) ==
  CASE v.t = "array" -> JsArray([i \in 1..Len(v.items) |-> Defined(v.items[i])])
    [] v.t = "object" ->
         JsObject([k \in {m \in DOMAIN v.o : v.o[m].t # "undefined"} |-> Defined(v.o[k])])
    [] OTHER -> v

toEqual(a, b) == Defined(a) = Defined(b)

IsString(o, k) == k \in DOMAIN o /\ o[k].t = "string"
IsStringArray(o, k) ==
  /\ k \in DOMAIN o /\ o[k].t = "array"
  /\ \A i \in 1..Len(o[k].items) : o[k].items[i].t = "string"
Strings(items) == [i \in 1..Len(items) |-> items[i].s]
JsStrings(seq) == JsArray([i \in 1..Len(seq) |-> JsString(seq[i])])

\* a command as the object the client writes
JsCommand(cmd) ==
  CASE cmd.type = "create_session" ->
         JsObject([type |-> JsString(<<cmd.type>>), words |-> JsStrings(cmd.words)])
    [] cmd.type = "join" ->
         JsObject([type |-> JsString(<<cmd.type>>), screenName |-> JsString(cmd.screenName)])
    [] cmd.type = "mark_word" ->
         JsObject([type |-> JsString(<<cmd.type>>), word |-> JsString(cmd.word)])
    [] OTHER -> JsObject([type |-> JsString(<<cmd.type>>)])

\* what parseCommand reads off the value JSON.parse returned
RawCommand(parsed) ==
  IF parsed.t # "object" THEN [json |-> FALSE]
  ELSE LET o == parsed.o
           type == IF IsString(o, "type") /\ Len(o.type.s) = 1 THEN o.type.s[1] ELSE "none"
       IN CASE type = "create_session" ->
                 IF IsStringArray(o, "words")
                 THEN [json |-> TRUE, type |-> type, typed |-> TRUE, arg |-> Strings(o.words.items)]
                 ELSE [json |-> TRUE, type |-> type, typed |-> FALSE, arg |-> <<>>]
            [] type = "join" ->
                 IF IsString(o, "screenName")
                 THEN [json |-> TRUE, type |-> type, typed |-> TRUE, arg |-> o.screenName.s]
                 ELSE [json |-> TRUE, type |-> type, typed |-> FALSE, arg |-> <<>>]
            [] type = "mark_word" ->
                 IF IsString(o, "word")
                 THEN [json |-> TRUE, type |-> type, typed |-> TRUE, arg |-> o.word.s]
                 ELSE [json |-> TRUE, type |-> type, typed |-> FALSE, arg |-> <<>>]
            [] OTHER -> [json |-> TRUE, type |-> type, typed |-> TRUE, arg |-> <<>>]

\* a relay message as the object serializeRelayMessage is given
JsRelayMessage(msg) ==
  LET e == JsString(<<msg.envelope>>)
  IN CASE msg.envelope = "admin_register" ->
            JsObject([envelope |-> e, sessionId |-> JsString(msg.sessionId),
                      secret |-> JsString(msg.secret)])
       [] msg.envelope = "admin_registered" ->
            JsObject([envelope |-> e, sessionId |-> JsString(msg.sessionId)])
       [] msg.envelope = "admin_error" ->
            JsObject([envelope |-> e, message |-> JsString(msg.message)])
       [] msg.envelope = "upstream" ->
            JsObject([envelope |-> e, connectionId |-> JsString(msg.connectionId),
                      command |-> JsString(msg.command)])
       [] msg.envelope = "downstream" ->
            JsObject([envelope |-> e, target |-> JsString(msg.target),
                      event |-> JsString(msg.event)])
       [] msg.envelope = "broadcast" ->
            JsObject([envelope |-> e, event |-> JsString(msg.event)])
       [] msg.envelope = "player_roster" ->
            JsObject([envelope |-> e, connections |-> JsStrings(msg.connections)])
       [] OTHER ->
            JsObject([envelope |-> e, connectionId |-> JsString(msg.connectionId)])

\* what parseRelayMessage reads off the value JSON.parse returned
RawRelayMessage(parsed) ==
  IF parsed.t # "object" THEN [json |-> FALSE]
  ELSE LET o == parsed.o
           envelope == IF IsString(o, "envelope") /\ Len(o.envelope.s) = 1
                       THEN o.envelope.s[1] ELSE "none"
           Two(id, text) ==
             IF IsString(o, id) /\ IsString(o, text)
             THEN RelayRaw(envelope, TRUE, o[id].s, o[text].s)
             ELSE RelayRaw(envelope, FALSE, <<>>, <<>>)
           Id(id) ==
             IF IsString(o, id) THEN RelayRaw(envelope, TRUE, o[id].s, <<>>)
             ELSE RelayRaw(envelope, FALSE, <<>>, <<>>)
           Text(text) ==
             IF IsString(o, text) THEN RelayRaw(envelope, TRUE, <<>>, o[text].s)
             ELSE RelayRaw(envelope, FALSE, <<>>, <<>>)
       IN CASE envelope = "admin_register" -> Two("sessionId", "secret")
            [] envelope = "admin_registered" -> Id("sessionId")
            [] envelope = "admin_error" -> Text("message")
            [] envelope = "upstream" -> Two("connectionId", "command")
            [] envelope = "downstream" -> Two("target", "event")
            [] envelope = "broadcast" -> Text("event")
            [] envelope \in {"player_connected", "player_disconnected"} -> Id("connectionId")
            [] envelope = "player_roster" ->
                 IF IsStringArray(o, "connections")
                 THEN RelayRaw(envelope, TRUE, Strings(o.connections.items), <<>>)
                 ELSE RelayRaw(envelope, FALSE, <<>>, <<>>)
            [] OTHER -> RelayRaw(envelope, TRUE, <<>>, <<>>)

JsPattern(p) ==
  CASE p.type = "horizontal" -> JsObject([type |-> JsString(<<p.type>>), row |-> JsNumber(p.row)])
    [] p.type = "vertical" -> JsObject([type |-> JsString(<<p.type>>), col |-> JsNumber(p.col)])
    [] p.type = "diagonal" ->
         JsObject([type |-> JsString(<<p.type>>), direction |-> JsString(<<p.direction>>)])
    [] OTHER -> JsObject([type |-> JsString(<<p.type>>)])

\* one leaderboard entry; lastWinRound is undefined until the player has won
JsScore(e) ==
  JsObject([playerId |-> JsString(e.playerId), screenName |-> JsString(e.screenName),
            totalPoints |-> JsNumber(e.totalPoints), roundsWon |-> JsNumber(e.roundsWon),
            lastWinRound |-> IF e.lastWinRound = NoRound THEN JsUndefined
                             ELSE JsNumber(e.lastWinRound)])

\* an event as the object serializeEvent is given
JsEvent(e) ==
  LET type == JsString(<<e.type>>)
  IN CASE e.type = "session_created" ->
            JsObject([type |-> type, sessionId |-> JsString(e.sessionId)])
       [] e.type = "joined" ->
            JsObject([type |-> type, playerId |-> JsString(e.playerId),
                      screenName |-> JsString(e.screenName),
                      gameStatus |-> JsString(<<e.gameStatus>>), round |-> JsNumber(e.round)])
       [] e.type = "card_dealt" ->
            JsObject([type |-> type, roundNumber |-> JsNumber(e.roundNumber),
                      grid |-> JsArray([r \in 1..5 |->
                                 JsArray([c \in 1..5 |-> JsString(e.grid[r - 1][c - 1])])]),
                      marked |-> JsArray([r \in 1..5 |->
                                   JsArray([c \in 1..5 |-> JsBoolean(e.marked[r - 1][c - 1])])])])
       [] e.type \in {"player_joined", "player_left"} ->
            JsObject([type |-> type, playerId |-> JsString(e.playerId),
                      screenName |-> JsString(e.screenName),
                      playerCount |-> JsNumber(e.playerCount)])
       [] e.type = "mark_result" ->
            JsObject([type |-> type, success |-> JsBoolean(e.success), word |-> JsString(e.word),
                      bingo |-> JsBoolean(e.bingo), roundOver |-> JsBoolean(e.roundOver)])
       [] e.type = "player_won" ->
            JsObject([type |-> type, winnerName |-> JsString(e.winnerName),
                      pattern |-> JsPattern(e.pattern), roundNumber |-> JsNumber(e.roundNumber)])
       [] e.type = "game_status" ->
            JsObject([type |-> type, status |-> JsString(<<e.status>>), round |-> JsNumber(e.round)])
       [] e.type = "leaderboard" ->
            JsObject([type |-> type,
                      entries |-> JsArray([i \in 1..Len(e.entries) |-> JsScore(e.entries[i])])])
       [] OTHER -> JsObject([type |-> type, message |-> JsString(<<e.message>>)])

\* ------------------------------------------------------------------ codecs, called directly
\* a screen name and a word that need escaping
QuotedName == <<Quotation, "B", Backslash, "o", Quotation>>
CodecNames == ScreenNames \cup {QuotedName}

CommandInputs ==
  {[type |-> "create_session", words |-> w] : w \in {sampleBuzzwords, <<>>, <<QuotedName>>}}
  \cup {[type |-> "start_game"], [type |-> "start_new_round"]}
  \cup {[type |-> "join", screenName |-> n] : n \in CodecNames}
  \cup {[type |-> "mark_word", word |-> w] : w \in MarkWords \cup {QuotedName, <<>>}}

\* the texts the relay carries: a command and an event as the client and
\* serializeEvent write them
JoinText == <<"{", Quotation, "type", Quotation, ":", Quotation, "join", Quotation, "}">>
JoinedText == <<"{", Quotation, "type", Quotation, ":", Quotation, "joined", Quotation, "}">>
RelayTexts == {JoinText, JoinedText, <<>>}
RelayIds == {<<"s", "1">>, randomUUID(1)}

RelayInputs ==
  {[envelope |-> "admin_register", sessionId |-> i, secret |-> x] :
     i \in RelayIds, x \in {<<"sec">>, QuotedName}}
  \cup {[envelope |-> "admin_registered", sessionId |-> i] : i \in RelayIds}
  \cup {[envelope |-> "admin_error", message |-> x] : x \in {<<"nope">>, QuotedName}}
  \cup {[envelope |-> "upstream", connectionId |-> i, command |-> x] :
          i \in RelayIds, x \in RelayTexts}
  \cup {[envelope |-> "downstream", target |-> i, event |-> x] : i \in RelayIds, x \in RelayTexts}
  \cup {[envelope |-> "broadcast", event |-> x] : x \in RelayTexts}
  \cup {[envelope |-> e, connectionId |-> i] :
          e \in {"player_connected", "player_disconnected"}, i \in RelayIds}
  \cup {[envelope |-> "player_roster", connections |-> c] :
          c \in {<<>>, <<randomUUID(1)>>, <<randomUUID(1), randomUUID(2)>>}}

\* sessions to take events from: new, two players joined, started, and won
\* by the player who joined second
CodecNew == Session_new(sampleBuzzwords, randomUUID(1)).session
CodecJoined ==
  Session_addPlayer(Session_addPlayer(CodecNew, <<"A", "l">>, 0, 1).session,
                    QuotedName, 0, 2).session
CodecStarted == Session_startGame(CodecJoined, [i \in 1..2 |-> 0], 3).session
CodecWon ==
  LET p == CodecJoined.players[2].id
      Mark(s, w) == Session_markWord(s, p, w).session
  IN Mark(Mark(Mark(Mark(CodecStarted, <<" ", "B", " ">>), <<"F">>), <<"u">>), <<"y">>)
CodecSessions == {CodecNew, CodecJoined, CodecStarted, CodecWon}

EventInputs ==
  {GameStatusEvent(s) : s \in CodecSessions}
  \cup {LeaderboardEvent(s) : s \in CodecSessions}
  \cup {[type |-> "session_created", sessionId |-> CodecNew.id]}
  \cup {[type |-> "joined", playerId |-> s.players[i].id, screenName |-> s.players[i].screenName,
         gameStatus |-> getGameStatus(s), round |-> getCurrentRound(s)] :
          s \in {CodecJoined, CodecWon}, i \in 1..2}
  \cup {CardDealt(s, [roundNumber |-> 1, playerId |-> s.players[i].id]) :
          s \in {CodecStarted, CodecWon}, i \in 1..2}
  \cup {PlayerCountEvent(CodecJoined, [type |-> t, playerId |-> CodecJoined.players[i].id,
                                       screenName |-> CodecJoined.players[i].screenName]) :
          t \in {"player_joined", "player_left"}, i \in 1..2}
  \cup {[type |-> "mark_result", success |-> b.success, word |-> w, bingo |-> b.bingo,
         roundOver |-> b.bingo] :
          b \in {[success |-> FALSE, bingo |-> FALSE], [success |-> TRUE, bingo |-> FALSE],
                 [success |-> TRUE, bingo |-> TRUE]},
          w \in {<<"y">>, QuotedName}}
  \cup {PlayerWonEvent([winnerName |-> QuotedName, pattern |-> ScanOrder[i], roundNumber |-> 1]) :
          i \in {1, 6, 11, 12, 13}}
  \cup {ErrorEvent(m) : m \in {"No session exists", "Invalid message format"}}

InitCodec ==
  /\ game = NoGame
  /\ session = NoSession
  /\ uuidCount = 0
  /\ roundLog = NewRoundLog
  /\ NoHandler
  /\ \/ \E v \in CommandInputs : last = [op |-> "input", kind |-> "command", value |-> v]
     \/ \E v \in EventInputs : last = [op |-> "input", kind |-> "event", value |-> v]
     \/ \E v \in RelayInputs : last = [op |-> "input", kind |-> "relay", value |-> v]

CodecStep(kind, op, prev, more) ==
  /\ last.kind = kind /\ last.op = prev
  /\ last' = [op |-> op, kind |-> kind, value |-> last.value] @@ more
  /\ UNCHANGED <<game, session, uuidCount, roundLog, hvars>>

\* the client's JSON.stringify(command)
CodecSendCommand ==
  CodecStep("command", "serialize", "input", [text |-> JSON_stringify(JsCommand(last.value))])

CodecParseCommand ==
  CodecStep("command", "parse", "serialize",
            [text |-> last.text, result |-> parseCommand(RawCommand(JSON_parse(last.text)))])

CodecSerializeEvent ==
  CodecStep("event", "serialize", "input", [text |-> JSON_stringify(JsEvent(last.value))])

\* the client's JSON.parse(data)
CodecReceiveEvent ==
  CodecStep("event", "parse", "serialize",
            [text |-> last.text, result |-> JSON_parse(last.text)])

CodecSerializeRelayMessage ==
  CodecStep("relay", "serialize", "input", [text |-> JSON_stringify(JsRelayMessage(last.value))])

CodecParseRelayMessage ==
  CodecStep("relay", "parse", "serialize",
            [text |-> last.text,
             result |-> parseRelayMessage(RawRelayMessage(JSON_parse(last.text)))])

NextCodec ==
  \/ CodecSendCommand \/ CodecParseCommand
  \/ CodecSerializeEvent \/ CodecReceiveEvent
  \/ CodecSerializeRelayMessage \/ CodecParseRelayMessage

SpecCodec == InitCodec /\ [][NextCodec]_vars

\* ------------------------------------------------------------------ properties

\* C1: at most one winner per round. Since the last round start at most one
\* mark returned bingo:true and at most one player_won event was emitted; and
\* while the game is finished every markWord, by any player and with any word,
\* does not throw, returns success:false and roundOver:true, emits nothing and
\* leaves the whole session (cards, winner, status, scores) as it was.
C1_SingleWinnerPerRound ==
  /\ roundLog.bingos <= 1
  /\ roundLog.wonEvents <= 1
  /\ getGameStatus(session) = "finished" =>
       \A p \in KnownIds(session), w \in MarkWords :
         \A r \in {Session_markWord(session, p, w)} :
           /\ ~r.threw
           /\ r.result.success = FALSE
           /\ r.result.bingo = FALSE
           /\ r.result.roundOver = TRUE
           /\ r.events = <<>>
           /\ r.session = session

\* a mark was rejected after a win in a round in which two players held cards
C1_RejectedAfterWin ==
  /\ last.op = "markWord"
  /\ ~last.threw
  /\ ~last.result.success
  /\ last.result.roundOver
  /\ getGameStatus(session) = "finished"
  /\ roundLog.bingos = 1
  /\ roundLog.wonEvents = 1
  /\ Cardinality(DOMAIN session.game.cards) = 2

\* C2: BingoGame.status changes only by start (waiting to active), by a
\* winning markWord (active to finished) and by startNewRound (finished to
\* active); start throws exactly when the status is not waiting, startNewRound
\* exactly when it is not finished, and a throwing start or startNewRound
\* leaves the game (status, currentRound, cards, winners) as it was.
C2_StatusTransitions ==
  [][
    /\ game'.status # game.status =>
         \/ game.status = "waiting" /\ game'.status = "active" /\ last'.op = "start"
         \/ /\ game.status = "active" /\ game'.status = "finished"
            /\ last'.op = "markWord" /\ last'.result.bingo
         \/ game.status = "finished" /\ game'.status = "active" /\ last'.op = "startNewRound"
    /\ last'.op = "start" => (last'.threw <=> game.status # "waiting")
    /\ last'.op = "startNewRound" => (last'.threw <=> game.status # "finished")
    /\ (last'.op \in {"start", "startNewRound"} /\ last'.threw) => game' = game
  ]_vars

\* startNewRound threw in the active second round, after the whole cycle
\* waiting, active, finished, active was run through
C2_ThrewInSecondRound ==
  /\ last.op = "startNewRound"
  /\ last.threw
  /\ game.status = "active"
  /\ game.currentRound = 2
  /\ Len(game.roundWinners) = 1

\* C3: every joined player has a score entry with totalPoints = 100 * roundsWon
\* (so two wins are exactly 200 points and roundsWon 2); the score of a player
\* who stays joined never decreases and changes only in that player's own
\* winning mark, by +100 points and +1 round with lastWinRound the current
\* round, while every other joined player's score stays as it was.
C3_Scores ==
  /\ [](\A p \in PlayerIds(session) :
         /\ p \in DOMAIN session.scores
         /\ session.scores[p].totalPoints = 100 * session.scores[p].roundsWon)
  /\ [][\A p \in PlayerIds(session) \cap PlayerIds(session') :
         /\ session'.scores[p].totalPoints >= session.scores[p].totalPoints
         /\ session'.scores[p].roundsWon >= session.scores[p].roundsWon
         /\ session'.scores[p] # session.scores[p] =>
              /\ last'.op = "markWord"
              /\ last'.result.bingo
              /\ last'.result.winnerId = p
              /\ session'.scores[p].totalPoints = session.scores[p].totalPoints + 100
              /\ session'.scores[p].roundsWon = session.scores[p].roundsWon + 1
              /\ session'.scores[p].lastWinRound = getCurrentRound(session')
              /\ \A q \in (PlayerIds(session) \cap PlayerIds(session')) \ {p} :
                   session'.scores[q] = session.scores[q]
       ]_vars

\* a player has just won a second round
C3_TwoWins ==
  /\ last.op = "markWord"
  /\ ~last.threw
  /\ last.result.bingo
  /\ \E p \in PlayerIds(session) :
       /\ last.result.winnerId = p
       /\ session.scores[p].totalPoints = 200
       /\ session.scores[p].roundsWon = 2
       /\ session.scores[p].lastWinRound = getCurrentRound(session)

\* C4: no two joined players have names that are equal after trim and
\* lower-casing; addPlayer with a blank name or with a name that is taken
\* throws, emits nothing and leaves players and scores as they were; and
\* after removePlayer(p) an addPlayer with p's name succeeds.
C4_UniqueNames ==
  /\ \A i, j \in 1..Len(session.players) :
       i # j => toLowerCase(trim(session.players[i].screenName))
                  # toLowerCase(trim(session.players[j].screenName))
  /\ \A name \in ScreenNames, seed \in Seeds :
       (\/ Len(trim(name)) = 0
        \/ \E i \in 1..Len(session.players) :
             toLowerCase(trim(session.players[i].screenName)) = toLowerCase(trim(name)))
       => \A r \in {Session_addPlayer(session, name, seed, uuidCount)} :
            /\ r.threw
            /\ r.events = <<>>
            /\ r.session = session
  /\ \A i \in 1..Len(session.players), seed \in Seeds :
       \A r \in {Session_addPlayer(Session_removePlayer(session, session.players[i].id).session,
                                   session.players[i].screenName, seed, uuidCount)} :
         /\ ~r.threw
         /\ r.player.screenName = session.players[i].screenName
         /\ r.player.id \in PlayerIds(r.session)
         /\ r.player.id \notin PlayerIds(session)

\* both joined players came after the first player, who was removed: the
\* identifiers handed out are the session's and three players', and the only
\* two names there are (after trim and lower-casing) are both in use, so one
\* of the two carries the removed player's name; and the last call was a
\* rejected addPlayer
C4_NameReused ==
  /\ uuidCount = 4
  /\ Len(session.players) = 2
  /\ session.players[1].id = randomUUID(3)
  /\ session.players[2].id = randomUUID(4)
  /\ last.op = "addPlayer"
  /\ last.threw

\* C5 (as stated): a handler holds at most one Session: once created it is
\* never replaced; a create_session with a valid word list on a handler
\* without session creates it and makes the sender the admin, one with an
\* invalid word list creates none; and a create_session on a handler that has
\* a session leaves the handler as it was and sends an error (here: to
\* whichever socket).
C5_SingleSession ==
  /\ [][handler.session # NoSession => handler'.session = handler.session
                                       \/ handler'.session.id = handler.session.id]_vars
  /\ [](\A ws \in Sockets, raw \in CreateRaws, seeds \in DealSeeds :
         readyState[ws] = "OPEN" =>
           \A o \in {MessageOut(ws, raw, seeds)} :
             IF handler.session # NoSession
             THEN /\ o.h = handler
                  /\ \E i \in 1..Len(o.sent) : o.sent[i].data.object.type = "error"
             ELSE IF Len(Clean(raw.arg)) >= 24
             THEN /\ o.h.session # NoSession
                  /\ o.h.adminSocket = ws
             ELSE /\ o.h.session = NoSession
                  /\ o.h.adminSocket = handler.adminSocket)

\* C6: in the unified handler a start_game or start_new_round from an open
\* socket that is not the admin socket leaves session, admin designation and
\* maps as they were, deals no card (draws no identifier) and sends exactly
\* one message, an error to the sender.
C6_NonAdminStartRejected ==
  handlerKind = "unified" =>
    \A ws \in Sockets, raw \in StartRaws, seeds \in DealSeeds :
      (readyState[ws] = "OPEN" /\ ws # handler.adminSocket) =>
        \A o \in {handleMessage(handler, readyState, ws, raw, seeds, uuidCount)} :
          /\ o.h = handler
          /\ o.used = 0
          /\ Len(o.sent) = 1
          /\ o.sent[1].to = ws
          /\ o.sent[1].data.object.type = "error"

\* a socket other than the open admin socket has just been refused start_game
\* in a session that has a player
C6_RefusedStart ==
  /\ handlerKind = "unified"
  /\ handler.session # NoSession
  /\ Len(handler.session.players) > 0
  /\ handler.adminSocket # NoSocket
  /\ readyState[handler.adminSocket] = "OPEN"
  /\ \E ws \in Sockets \ {handler.adminSocket} :
       sent = <<[to |-> ws,
                 data |-> serializeEvent(ErrorEvent("Only admin can start the game"))]>>

\* C7: while an admin socket is open and registered, a further admin
\* connection is answered admin_error with a message containing "already",
\* gets no listeners and changes nothing in the relay; the first admin stays
\* the registered admin for as long as it is open, is sent the player_connected
\* and upstream envelopes of the players, and its downstream / broadcast
\* envelopes reach the players they name; an open admin socket other than the
\* first one has no listener, so what it sends starts no turn.
C7_SecondAdminRejected ==
  /\ [](relay.adminWs # NoSocket /\ readyState[relay.adminWs] = "OPEN" /\ relay.adminRegistered
        => LET first == relay.adminWs
               accepted == {p \in PlayerSockets :
                              listeners[p].on = "player" /\ readyState[p] # "CLOSED"}
           IN
           /\ \A ws \in AdminSockets : readyState[ws] = "NONE" =>
                \A o \in {Relay_handleAdminConnection(
                            relay, [readyState EXCEPT ![ws] = "OPEN"], ws)} :
                  /\ o.r = relay
                  /\ ~o.attach
                  /\ Len(o.sent) = 1
                  /\ o.sent[1].to = ws
                  /\ o.sent[1].data.object.envelope = "admin_error"
                  /\ includes(o.sent[1].data.object.message,
                              <<"a", "l", "r", "e", "a", "d", "y">>)
           /\ \A ws \in AdminSockets \ {first} :
                readyState[ws] = "OPEN" => listeners[ws].on = "none"
           /\ \A p \in PlayerSockets : readyState[p] = "NONE" =>
                \A o \in {Relay_handlePlayerConnection(
                            relay, [readyState EXCEPT ![p] = "OPEN"], p, uuidCount)} :
                  /\ o.attach
                  /\ o.r.adminWs = first /\ o.r.adminRegistered
                  /\ o.sent = <<[to |-> first,
                                 data |-> stringify([envelope |-> "player_connected",
                                                     connectionId |-> randomUUID(uuidCount + 1)])]>>
           /\ \A p \in accepted, data \in Payloads : readyState[p] = "OPEN" =>
                \A o \in {Relay_playerMessage(relay, readyState, listeners[p].connectionId, data)} :
                  /\ o.r = relay
                  /\ o.sent = <<[to |-> first,
                                 data |-> stringify([envelope |-> "upstream",
                                                     connectionId |-> listeners[p].connectionId,
                                                     command |-> data])]>>
           /\ \A raw \in DownstreamRaws :
                \A o \in {Relay_handleAdminMessage(relay, readyState, raw, Secret)} :
                  /\ o.r = relay
                  /\ \A p \in accepted :
                       (listeners[p].connectionId = raw.id /\ readyState[p] = "OPEN")
                         => o.sent = <<[to |-> p, data |-> raw.text]>>
                  /\ (~\E p \in accepted :
                         listeners[p].connectionId = raw.id /\ readyState[p] = "OPEN")
                       => o.sent = <<>>
           /\ \A raw \in BroadcastRaws :
                \A o \in {Relay_handleAdminMessage(relay, readyState, raw, Secret)} :
                  /\ o.r = relay
                  /\ \A p \in PlayerSockets :
                       Cardinality({i \in 1..Len(o.sent) : o.sent[i].to = p})
                         = IF p \in accepted /\ readyState[p] = "OPEN" THEN 1 ELSE 0
                  /\ \A i \in 1..Len(o.sent) : o.sent[i].data = raw.text)
  /\ [][(relay.adminWs # NoSocket /\ readyState[relay.adminWs] = "OPEN"
         /\ relay.adminRegistered /\ readyState'[relay.adminWs] = "OPEN")
        => (relay'.adminWs = relay.adminWs /\ relay'.adminRegistered)]_vars

\* a second admin socket has just been turned away while the first admin is
\* open and registered
C7_SecondAdminTurnedAway ==
  \E ws \in AdminSockets :
    /\ relay.adminWs \notin {NoSocket, ws}
    /\ readyState[relay.adminWs] = "OPEN"
    /\ relay.adminRegistered
    /\ readyState[ws] = "OPEN"
    /\ listeners[ws].on = "none"
    /\ sent = <<[to |-> ws, data |-> stringify([envelope |-> "admin_error",
                                                message |-> AdminAlreadyConnected])]>>

\* C8: on an open admin socket that has not registered, every well-formed
\* envelope other than admin_register, and an admin_register with a wrong
\* secret, is answered with exactly one admin_error to that socket and leaves
\* the relay's state as it was (unregistered, same player map, nothing sent to
\* a player); such a turn never changes a socket's readyState; and an
\* admin_register with the right secret on that socket then registers it and
\* is answered admin_registered with the session id.
C8_UnregisteredAdminErrors ==
  /\ [](\A ws \in AdminSockets :
          (readyState[ws] = "OPEN" /\ listeners[ws].on = "admin" /\ ~relay.adminRegistered)
          => /\ ws = relay.adminWs
             /\ \A raw \in NonRegisterRaws \cup {r \in RegisterRaws : r.text # Secret} :
                  \A o \in {Relay_handleAdminMessage(relay, readyState, raw, Secret)} :
                    /\ o.r = relay
                    /\ Len(o.sent) = 1
                    /\ o.sent[1].to = ws
                    /\ o.sent[1].data.object.envelope = "admin_error"
             /\ \A raw \in {r \in RegisterRaws : r.text = Secret} :
                  \A o \in {Relay_handleAdminMessage(relay, readyState, raw, Secret)} :
                    /\ o.r = [relay EXCEPT !.adminRegistered = TRUE]
                    /\ Len(o.sent) >= 1
                    /\ o.sent[1] = [to |-> ws,
                                    data |-> stringify([envelope |-> "admin_registered",
                                                        sessionId |-> raw.id])]
                    /\ \A i \in 1..Len(o.sent) : o.sent[i].to = ws)
  /\ [][(last'.op = "adminMessage" /\ ~relay.adminRegistered /\ ~relay'.adminRegistered)
        => /\ relay' = relay
           /\ readyState' = readyState
           /\ listeners' = listeners
           /\ \A i \in 1..Len(sent') : sent'[i].to = last'.ws]_vars

\* an unregistered admin socket has just been refused for a wrong secret and
\* is still the relay's open admin socket
C8_WrongSecretRefused ==
  /\ relay.adminWs # NoSocket
  /\ readyState[relay.adminWs] = "OPEN"
  /\ ~relay.adminRegistered
  /\ sent = <<[to |-> relay.adminWs,
               data |-> stringify([envelope |-> "admin_error", message |-> InvalidSecret])]>>

C10_AdminCloseNotifiesPlayers ==
  [][\A ws \in AdminSockets :
       (listeners[ws].registered /\ readyState[ws] = "CLOSING" /\ readyState'[ws] = "CLOSED")
       => /\ relay'.playerConnections = relay.playerConnections
          /\ relay'.wsToConnectionId = relay.wsToConnectionId
          /\ \A p \in PlayerSockets :
               (listeners[p].on = "player" /\ readyState[p] = "OPEN")
               => /\ Cardinality({i \in 1..Len(sent') : sent'[i].to = p}) = 1
                  /\ \A i \in 1..Len(sent') :
                       sent'[i].to = p => sent'[i].data = stringify(HostDisconnected)]_vars

\* C11 as stated: every player socket that connects gets listeners and a
\* connection id, and the turn sends player_connected to an admin socket.
C11_EveryPlayerAssigned ==
  [][\A p \in PlayerSockets :
       (readyState[p] = "NONE" /\ readyState'[p] = "OPEN")
       => /\ listeners'[p].on = "player"
          /\ MapHas(relay'.wsToConnectionId, p)
          /\ sent' # <<>>
          /\ sent'[1].to \in AdminSockets
          /\ sent'[1].data.object.envelope = "player_connected"]_vars

\* C11, amended: a player socket that connects while an admin is set and
\* registered gets an identifier that is neither a key of the player map nor
\* the identifier of any other socket, both maps gain exactly that entry, and
\* player_connected with it is sent to the admin socket if that is open; a
\* player socket that connects at any other time is answered with an error
\* and gets no identifier and no listener; the close event of an accepted
\* player socket removes exactly its entries from both maps and sends
\* player_disconnected with the same identifier to the admin socket if one is
\* set and open.
C11_PlayerIdLifecycle ==
  [][\A p \in PlayerSockets :
       /\ (readyState[p] = "NONE" /\ readyState'[p] = "OPEN"
           /\ relay.adminWs # NoSocket /\ relay.adminRegistered)
          => \A id \in {listeners'[p].connectionId} :
               /\ listeners'[p].on = "player"
               /\ id # <<>>
               /\ ~MapHas(relay.playerConnections, id)
               /\ \A q \in PlayerSockets \ {p} : listeners'[q].connectionId # id
               /\ relay'.playerConnections
                    = Append(relay.playerConnections, [key |-> id, value |-> p])
               /\ relay'.wsToConnectionId
                    = Append(relay.wsToConnectionId, [key |-> p, value |-> id])
               /\ sent' = IF readyState[relay.adminWs] = "OPEN"
                          THEN <<[to |-> relay.adminWs,
                                  data |-> stringify([envelope |-> "player_connected",
                                                      connectionId |-> id])]>>
                          ELSE <<>>
       /\ (readyState[p] = "NONE" /\ readyState'[p] = "OPEN"
           /\ ~(relay.adminWs # NoSocket /\ relay.adminRegistered))
          => /\ listeners'[p] = NoListener
             /\ relay' = relay
             /\ sent' = <<[to |-> p, data |-> stringify(NotAvailableYet)]>>
       /\ (readyState[p] = "CLOSING" /\ readyState'[p] = "CLOSED" /\ listeners[p].on = "player")
          => \A id \in {listeners[p].connectionId} :
               /\ relay'.playerConnections
                    = SelectSeq(relay.playerConnections, LAMBDA e : e.value # p)
               /\ relay'.wsToConnectionId
                    = SelectSeq(relay.wsToConnectionId, LAMBDA e : e.value # id)
               /\ ~MapHas(relay'.playerConnections, id)
               /\ ~MapHas(relay'.wsToConnectionId, p)
               /\ sent' = IF relay.adminWs # NoSocket /\ readyState[relay.adminWs] = "OPEN"
                          THEN <<[to |-> relay.adminWs,
                                  data |-> stringify([envelope |-> "player_disconnected",
                                                      connectionId |-> id])]>>
                          ELSE <<>>]_vars

\* the close event of an accepted player socket has just been handled: the
\* admin was sent player_disconnected with the socket's identifier, the
\* identifier is gone from the map and the other player is still in it
C11_PlayerGone ==
  \E p \in PlayerSockets :
    /\ last = [op |-> "close", ws |-> p]
    /\ listeners[p].on = "player"
    /\ relay.adminWs # NoSocket
    /\ sent = <<[to |-> relay.adminWs,
                 data |-> stringify([envelope |-> "player_disconnected",
                                     connectionId |-> listeners[p].connectionId])]>>
    /\ ~MapHas(relay.playerConnections, listeners[p].connectionId)
    /\ Len(relay.playerConnections) = 1

\* C12: a downstream envelope from the registered admin changes no relay
\* state and is sent, unchanged, to the open accepted player socket whose
\* connection id is its target and to nobody else; when no open accepted
\* socket has that id nothing is sent at all; a broadcast envelope is sent
\* exactly once to every open accepted player socket whose close event has
\* not been handled, and to nobody else.
C12_DownstreamAndBroadcast ==
  \A ws \in AdminSockets :
    (readyState[ws] = "OPEN" /\ listeners[ws].on = "admin" /\ relay.adminRegistered)
    => LET live == {p \in PlayerSockets : listeners[p].on = "player" /\ readyState[p] = "OPEN"}
       IN
       /\ \A raw \in DownstreamRaws :
            \A o \in {Relay_handleAdminMessage(relay, readyState, raw, Secret)} :
              /\ o.r = relay
              /\ Len(o.sent) = Cardinality({p \in live : listeners[p].connectionId = raw.id})
              /\ Len(o.sent) <= 1
              /\ \A i \in 1..Len(o.sent) :
                   /\ o.sent[i].to \in live
                   /\ listeners[o.sent[i].to].connectionId = raw.id
                   /\ o.sent[i].data = raw.text
       /\ \A raw \in BroadcastRaws :
            \A o \in {Relay_handleAdminMessage(relay, readyState, raw, Secret)} :
              /\ o.r = relay
              /\ Len(o.sent) = Cardinality(live)
              /\ {o.sent[i].to : i \in 1..Len(o.sent)} = live
              /\ \A i \in 1..Len(o.sent) : o.sent[i].data = raw.text

\* a downstream envelope has just been delivered to one of two open players
C12_OneOfTwoReached ==
  /\ last.op = "adminMessage"
  /\ relay.adminRegistered
  /\ Len(relay.playerConnections) = 2
  /\ \A p \in PlayerSockets : readyState[p] = "OPEN"
  /\ Len(sent) = 1
  /\ sent[1].to \in PlayerSockets

\* C13: at any time at most one socket of the admin relay client is
\* connecting or open.
C13_AtMostOneSocket ==
  Cardinality({s \in ClientSockets : readyState[s] \in {"CONNECTING", "OPEN"}}) <= 1

\* C14: connect() leaves the status connecting; the open event of a socket
\* sends, as the first envelope on that socket, admin_register with the
\* session id the socket was created for and the secret; the status becomes
\* connected only from connecting and only in the turn that receives
\* admin_registered; a close event leaves the status disconnected; and after
\* every turn that changes the status the last status given to
\* onStatusChange is the new status.
C14_StatusFollowsHandshake ==
  [][/\ last'.op = "connect" => client'.status = "connecting"
     /\ last'.op = "open"
        => /\ client.first[last'.ws] = "none"
           /\ sent' = <<[to |-> last'.ws,
                         data |-> stringify([envelope |-> "admin_register",
                                             sessionId |-> client.args[last'.ws],
                                             secret |-> ClientSecret])]>>
     /\ (client'.status = "connected" /\ client.status # "connected")
        => (client.status = "connecting" /\ last'.op = "admin_registered")
     /\ last'.op = "close" => client'.status = "disconnected"
     /\ client'.status # client.status => client'.reported = client'.status]_vars

\* C15: the turn of disconnect() leaves the status disconnected and no
\* reconnect timer pending; and from then on, until connect() is called, no
\* turn creates a socket or starts a timer.
C15_DisconnectStopsReconnect ==
  [][/\ last'.op = "disconnect"
        => /\ client'.status = "disconnected"
           /\ client'.timers = {}
           /\ ~client'.shouldReconnect
     /\ (~client.shouldReconnect /\ last'.op # "connect")
        => /\ \A s \in ClientSockets : readyState[s] = "NONE" => readyState'[s] = "NONE"
           /\ client'.timers \subseteq client.timers]_vars

\* C16: whenever a close event was handled while shouldReconnect was set, a
\* reconnect timer later creates a socket, leaving the status connecting,
\* unless disconnect() is called first; and the open event of a socket a
\* timer created sends admin_register on it, with the session id of the
\* connect() call before.
C16_ReconnectsAfterClose ==
  /\ (last.op = "close" /\ client.shouldReconnect)
       ~> ((last.op = "timer" /\ client.status = "connecting") \/ last.op = "disconnect")
  /\ [][(last'.op = "open" /\ client.byTimer[last'.ws])
        => sent' = <<[to |-> last'.ws,
                      data |-> stringify([envelope |-> "admin_register",
                                          sessionId |-> client.args[last'.ws],
                                          secret |-> ClientSecret])]>>]_vars

\* C17: whenever the client has no socket or its socket is not open,
\* sendToPlayer and broadcastToPlayers send nothing, throw nothing and leave
\* every closure variable, timer and socket as it was, so nothing of the call
\* is kept; and a downstream or broadcast envelope is only ever sent in the
\* turn of the call that asks for it (a socket failing is no turn).
C17_DroppedWhenNotOpen ==
  /\ []((client.ws = NoSocket \/ readyState[client.ws] # "OPEN")
        => \A event \in Payloads :
             /\ \A o \in {Client_sendToPlayer(client, readyState, randomUUID(1), event)} :
                  o.sent = <<>> /\ ~o.threw /\ o.c = client /\ o.rs = readyState
             /\ \A o \in {Client_broadcastToPlayers(client, readyState, event)} :
                  o.sent = <<>> /\ ~o.threw /\ o.c = client /\ o.rs = readyState)
  /\ [][last'.op # "socketFails" => \A i \in 1..Len(sent') :
          /\ sent'[i].data.object.envelope = "downstream" => last'.op = "sendToPlayer"
          /\ sent'[i].data.object.envelope = "broadcast" => last'.op = "broadcastToPlayers"]_vars

\* a broadcast has just been dropped while the client waits for its reconnect
\* timer
C17_DroppedDuringOutage ==
  /\ last.op = "broadcastToPlayers"
  /\ sent = <<>>
  /\ client.ws = NoSocket
  /\ client.status = "disconnected"
  /\ client.timers # {}
\* the connections a command can come from: the open sockets of the unified
\* handler, any connection id the relay client names in the admin-side one
Connections ==
  IF handlerKind = "admin" THEN ConnIds ELSE {w \in Sockets : readyState[w] = "OPEN"}

\* what the handler makes of a command of connection c
CommandOut(c, raw, seeds) ==
  IF handlerKind = "admin"
  THEN handlePlayerCommand(handler, readyState, c, raw, seeds, uuidCount)
  ELSE handleMessage(handler, readyState, c, raw, seeds, uuidCount)

\* the positions of the card_dealt events among the messages msgs
CardsDealt(msgs) == {i \in 1..Len(msgs) : msgs[i].data.object.type = "card_dealt"}

\* C18: a join that succeeds while the game is active sends exactly one
\* card_dealt, to the joining connection, carrying the current round (not 0)
\* and the card the game now holds for the new player, who was in neither the
\* game nor the player-to-connection map before; every card dealt earlier is
\* unchanged, marks included.
C18_LateJoinerDealtIn ==
  \A c \in Connections, raw \in JoinRaws, seeds \in DealSeeds :
    (/\ handler.session # NoSession
     /\ handler.session.game # NoGame
     /\ handler.session.game.status = "active"
     /\ ~Session_addPlayer(handler.session, raw.arg, seeds[1], uuidCount).threw)
    => \A o \in {CommandOut(c, raw, seeds)} :
         LET id == randomUUID(uuidCount + 1)
             before == handler.session.game.cards
             after == o.h.session.game.cards
         IN /\ Cardinality(CardsDealt(o.sent)) = 1
            /\ \A i \in CardsDealt(o.sent) :
                 /\ o.sent[i].to = c
                 /\ o.sent[i].data.object.roundNumber = handler.session.game.currentRound
                 /\ o.sent[i].data.object.roundNumber # 0
                 /\ o.sent[i].data.object.grid = after[id].grid
                 /\ o.sent[i].data.object.marked = after[id].marked
            /\ id \notin DOMAIN before
            /\ id \notin DOMAIN handler.playerToSocket
            /\ DOMAIN after = DOMAIN before \cup {id}
            /\ \A q \in DOMAIN before : after[q] = before[q]
            /\ o.h.session.game.currentRound = handler.session.game.currentRound
            /\ o.h.session.game.status = "active"

\* C18 witness: a late join was handled while an earlier player holds a card
C18_LateJoinerAmongOthers ==
  /\ sent # <<>>
  /\ sent[Len(sent)].data.object.type = "joined"
  /\ \E i \in CardsDealt(sent) :
       /\ sent[i].to = sent[Len(sent)].to
       /\ sent[i].data.object.roundNumber = sent[Len(sent)].data.object.round
       /\ sent[i].data.object.roundNumber >= 1
  /\ handler.session.game.status = "active"
  /\ Cardinality(DOMAIN handler.session.game.cards) >= 2

\* the sockets whose close event can be handled now, in the unified handler
ClosingSockets ==
  IF handlerKind = "unified" THEN {w \in Sockets : readyState[w] = "CLOSING"} ELSE {}

\* the readyState of every socket when the close event of ws is handled
AfterClose(ws) == [readyState EXCEPT ![ws] = "CLOSED"]

\* closing the socket of a joined player: the player it is mapped to leaves
\* the session, player_left reaches the open sockets that remain, the two map
\* entries go, and nothing else changes
PlayerCloseEffect(ws) ==
  LET info == MapGet(handler.socketToPlayer, ws) IN
  (info # NoInfo /\ handler.session # NoSession)
  => \A o \in {handleClose(handler, AfterClose(ws), ws)} :
       /\ o.h.session.players =
            SelectSeq(handler.session.players, LAMBDA p : p.id # info.playerId)
       /\ Len(o.h.session.players) = Len(handler.session.players) - 1
       /\ DOMAIN o.h.session.scores = (DOMAIN handler.session.scores) \ {info.playerId}
       /\ \A q \in DOMAIN o.h.session.scores :
            o.h.session.scores[q] = handler.session.scores[q]
       /\ o.h.session.game = handler.session.game
       /\ o.h.session.id = handler.session.id
       /\ o.h.session.wordList = handler.session.wordList
       /\ o.h.socketToPlayer = SelectSeq(handler.socketToPlayer, LAMBDA e : e.key # ws)
       /\ DOMAIN o.h.playerToSocket = (DOMAIN handler.playerToSocket) \ {info.playerId}
       /\ \A q \in DOMAIN o.h.playerToSocket :
            o.h.playerToSocket[q] = handler.playerToSocket[q]
       /\ o.h.pendingJoinSocket = handler.pendingJoinSocket
       /\ o.h.adminSocket \in {handler.adminSocket, NoSocket}
       /\ o.sent = broadcast(handler, AfterClose(ws),
                             [type |-> "player_left", playerId |-> info.playerId,
                              screenName |-> info.screenName,
                              playerCount |-> Len(handler.session.players) - 1])

\* closing the admin socket clears the designation and nothing else
AdminCloseOnly(ws) ==
  \A o \in {handleClose(handler, AfterClose(ws), ws)} :
    /\ o.h = [handler EXCEPT !.adminSocket = NoSocket]
    /\ o.sent = <<>>

\* C19 as stated: a joined player's close removes that player only, and the
\* close of the admin socket never changes the session or its players.
C19_AdminCloseKeepsPlayers ==
  \A ws \in ClosingSockets :
    /\ PlayerCloseEffect(ws)
    /\ ws = handler.adminSocket => AdminCloseOnly(ws)

\* C19: in the unified handler the close of a joined socket removes the
\* player it is mapped to, broadcasts player_left and forgets both map
\* entries, leaving the other players, the scores and the game as they were;
\* this includes the admin socket when it has joined as a player. The close
\* of the admin socket clears the admin designation, and when that socket has
\* not joined nothing else changes; the close of any other socket that has
\* not joined changes nothing.
C19_CloseRemovesThePlayer ==
  \A ws \in ClosingSockets :
    /\ PlayerCloseEffect(ws)
    /\ \A o \in {handleClose(handler, AfterClose(ws), ws)} :
         /\ ws = handler.adminSocket => o.h.adminSocket = NoSocket
         /\ ws # handler.adminSocket => o.h.adminSocket = handler.adminSocket
         /\ o.h.session # NoSession <=> handler.session # NoSession
         /\ handler.session # NoSession =>
              /\ o.h.session.game = handler.session.game
              /\ o.h.session.id = handler.session.id
    /\ (ws = handler.adminSocket /\ MapGet(handler.socketToPlayer, ws) = NoInfo)
         => AdminCloseOnly(ws)
    /\ (ws # handler.adminSocket /\ MapGet(handler.socketToPlayer, ws) = NoInfo)
         => \A o \in {handleClose(handler, AfterClose(ws), ws)} :
              o.h = handler /\ o.sent = <<>>

\* C19 witness: the socket of one of two players was closed and the admin,
\* still connected, was told that one player is left
C19_OneOfTwoLeft ==
  /\ handlerKind = "unified"
  /\ handler.adminSocket # NoSocket
  /\ \E w \in Sockets : readyState[w] = "CLOSED"
  /\ Len(sent) >= 1
  /\ sent[1].data.object.type = "player_left"
  /\ sent[1].data.object.playerCount = 1
  /\ Len(handler.session.players) = 1
  /\ Len(handler.socketToPlayer) = 1

\* the session players whose playerToSocket / playerToConnection entry names c
PlayersOf(h, c) ==
  {q \in DOMAIN h.playerToSocket :
     h.playerToSocket[q] = c /\ h.session # NoSession /\ q \in PlayerIds(h.session)}

\* C20: in both handlers a connection that is joined keeps its playerId for
\* as long as it is joined, a connection gains a mapping only when a player
\* is added to the session for it, and no connection ever owns two players of
\* the session.
C20_OnePlayerPerConnection ==
  /\ [][\A c \in Sockets \cup ConnIds :
          /\ (MapHas(handler.socketToPlayer, c) /\ MapHas(handler'.socketToPlayer, c))
               => MapGet(handler'.socketToPlayer, c).playerId =
                    MapGet(handler.socketToPlayer, c).playerId
          /\ (~MapHas(handler.socketToPlayer, c) /\ MapHas(handler'.socketToPlayer, c))
               => /\ handler.session # NoSession
                  /\ Len(handler'.session.players) = Len(handler.session.players) + 1
                  /\ MapGet(handler'.socketToPlayer, c).playerId \in PlayerIds(handler'.session)
                  /\ MapGet(handler'.socketToPlayer, c).playerId \notin PlayerIds(handler.session)]_vars
  /\ [](\A c \in Sockets \cup ConnIds : Cardinality(PlayersOf(handler, c)) <= 1)

\* one error event, addressed to c, and nothing else
OneErrorTo(msgs, c) ==
  /\ Len(msgs) = 1
  /\ msgs[1].to = c
  /\ msgs[1].data.object.type = "error"

\* C21: in both handlers a raw message the codec rejects is answered with
\* exactly one error event, sent to the connection the message came from,
\* and leaves the closure variables (session, game, registries) as they were.
C21_InvalidAnsweredToSender ==
  \A raw \in InvalidRaws, seeds \in DealSeeds :
    /\ parseCommand(raw) = NoCommand
    /\ \A ws \in {w \in Sockets : readyState[w] = "OPEN"} :
         \A o \in {MessageOut(ws, raw, seeds)} :
           o.h = handler /\ o.used = 0 /\ OneErrorTo(o.sent, ws)
    /\ handlerKind = "admin" =>
         \A c \in ConnIds :
           \A o \in {handlePlayerCommand(handler, readyState, c, raw, seeds, uuidCount)} :
             o.h = handler /\ o.used = 0 /\ OneErrorTo(o.sent, c)

\* the commands the claim lists as illegal in the handler's state h when
\* they come from connection c: the preconditions of Session.startGame,
\* startNewRound, markWord and addPlayer, and the joined test of mark_word
IllegalNow(h, c, raw) ==
  /\ h.session # NoSession
  /\ \/ /\ raw.type = "mark_word"
        /\ h.session.game = NoGame \/ ~MapHas(h.socketToPlayer, c)
     \/ /\ raw.type = "start_new_round"
        /\ h.session.game = NoGame \/ h.session.game.status = "active"
     \/ /\ raw.type = "start_game"
        /\ h.session.players = <<>>
     \/ /\ raw.type = "join"
        /\ \/ trim(raw.arg) = <<>>
           \/ nameTaken(h.session, toLowerCase(trim(raw.arg)))

\* C22: a valid command that is illegal in the current state is answered
\* with one error event to its sender and leaves every closure variable of
\* the handler (session with game and scores, admin socket, both maps, the
\* pending join) as it was. Covered: the commands of the admin socket and of
\* player sockets in the unified handler, the admin commands and the player
\* commands of the admin-side handler.
C22_IllegalCommandChangesNothing ==
  \A seeds \in DealSeeds :
    /\ handlerKind = "unified" =>
         \A ws \in {w \in Sockets : readyState[w] = "OPEN"} :
           \A raw \in StartRaws \cup JoinRaws \cup MarkRaws :
             (/\ IllegalNow(handler, ws, raw)
              /\ raw \in StartRaws => ws = handler.adminSocket)
             => \A o \in {handleMessage(handler, readyState, ws, raw, seeds, uuidCount)} :
                  o.h = handler /\ o.used = 0 /\ OneErrorTo(o.sent, ws)
    /\ handlerKind = "admin" =>
         /\ \A ws \in {w \in Sockets : readyState[w] = "OPEN"} :
              \A raw \in StartRaws :
                IllegalNow(handler, ws, raw)
                => \A o \in {handleAdminMessage(handler, readyState, ws, raw, seeds,
                                                uuidCount)} :
                     o.h = handler /\ o.used = 0 /\ OneErrorTo(o.sent, ws)
         /\ \A c \in ConnIds :
              \A raw \in JoinRaws \cup MarkRaws :
                IllegalNow(handler, c, raw)
                => \A o \in {handlePlayerCommand(handler, readyState, c, raw, seeds,
                                                 uuidCount)} :
                     o.h = handler /\ o.used = 0 /\ OneErrorTo(o.sent, c)

\* the listener calls a Session call owes: for every event it emitted, in
\* order, one call of every entry of the listeners array, in array order
OwedCalls(ls, events) ==
  Flatten([i \in 1..Len(events) |-> [j \in 1..Len(ls) |-> [to |-> ls[j], data |-> events[i]]]])

\* C23: every event a Session call emits is delivered, before the call
\* returns, to every listener in subscription order, also to those after a
\* listener that throws; the call throws only when its own precondition
\* fails, in which case it emitted nothing and changed nothing, and otherwise
\* returns with its state change applied.
C23_EveryListenerCalled ==
  [][last'.op \in {"addPlayer", "removePlayer", "startGame", "startNewRound", "markWord"}
     => /\ sent' = OwedCalls(listeners, last'.events)
        /\ listeners' = listeners
        /\ last'.threw => (last'.events = <<>> /\ session' = session)
        /\ (last'.events # <<>>) => (~last'.threw /\ session' # session)]_vars

\* C23 witness: the first of two listeners threw on player_won and on every
\* other event, the second received player_won, and the win was recorded
C23_SecondListenerHearsWin ==
  /\ last.op = "markWord" /\ ~last.threw
  /\ Len(listeners) = 2 /\ listeners[1] # listeners[2]
  /\ listeners[1] \in last.throwers
  /\ Len(sent) = 2
  /\ sent[1].to = listeners[1] /\ sent[2].to = listeners[2]
  /\ sent[2].data.type = "player_won"
  /\ session.game.status = "finished"
  /\ \E q \in DOMAIN session.scores : session.scores[q].totalPoints = 100

\* the identifiers randomUUID() hands out in the step
FreshIds == {randomUUID(k) : k \in (uuidCount + 1)..uuidCount'}

\* C24 as stated: whenever the game is active or finished it holds a card
\* for every currently-joined player.
C24_EveryPlayerHoldsACard ==
  (session.game # NoGame /\ session.game.status \in {"active", "finished"})
  => /\ PlayerIds(session) \subseteq DOMAIN session.game.cards
     /\ \A q \in DOMAIN session.game.cards : session.game.cards[q].playerId = q

\* C24: while the game is active it holds one card for every joined player,
\* filed under that player's id. startGame and startNewRound leave exactly
\* one newly generated card per joined player and no other card; in every
\* other step the round and the cards already dealt stay, and a card is
\* added only by addPlayer during an active round, for the new player. A
\* player who joins while the game is finished holds no card (until the
\* next round is started).
C24_CardsFollowRounds ==
  /\ [](session.game # NoGame =>
          /\ session.game.status = "active"
               => PlayerIds(session) \subseteq DOMAIN session.game.cards
          /\ \A q \in DOMAIN session.game.cards : session.game.cards[q].playerId = q)
  /\ [][session'.game # NoGame =>
          IF last'.op \in {"startGame", "startNewRound"} /\ ~last'.threw
          THEN /\ DOMAIN session'.game.cards = PlayerIds(session')
               /\ \A q \in DOMAIN session'.game.cards :
                    session'.game.cards[q].id \in FreshIds
          ELSE /\ session.game # NoGame
               /\ session'.game.currentRound = session.game.currentRound
               /\ \A q \in DOMAIN session.game.cards :
                    /\ q \in DOMAIN session'.game.cards
                    /\ session'.game.cards[q].id = session.game.cards[q].id
               /\ \A q \in (DOMAIN session'.game.cards) \ (DOMAIN session.game.cards) :
                    /\ last'.op = "addPlayer" /\ last'.player.id = q
                    /\ session.game.status = "active"
                    /\ session'.game.cards[q].id \in FreshIds
               /\ (last'.op = "addPlayer" /\ ~last'.threw
                     /\ session.game.status = "finished")
                    => last'.player.id \notin DOMAIN session'.game.cards]_vars

\* C24 witness: a player joined after the round was won and holds no card
C24_JoinedAfterTheWin ==
  /\ last.op = "addPlayer" /\ ~last.threw
  /\ session.game # NoGame
  /\ session.game.status = "finished"
  /\ last.player.id \in PlayerIds(session)
  /\ last.player.id \notin DOMAIN session.game.cards

\* C25: in every state of a BingoGame currentWinner is set exactly when the
\* status is finished, and then it carries the current round and 100 points.
C25_WinnerIffFinished ==
  /\ (game.currentWinner # NoWinner) <=> (game.status = "finished")
  /\ game.status = "finished" =>
       /\ game.currentWinner.roundNumber = game.currentRound
       /\ game.currentWinner.points = 100

\* C25 witness: the second round was won after the first winner was archived
C25_SecondRoundWon ==
  /\ game.status = "finished"
  /\ game.currentRound = 2
  /\ game.currentWinner # NoWinner
  /\ game.currentWinner.roundNumber = 2
  /\ Len(game.roundWinners) = 1

\* the cells of a card other than the centre
OuterCells == ((0..4) \X (0..4)) \ {<<2, 2>>}

\* C26: generate called with a list of at least 24 unique words (trimmed,
\* compared without case) returns a card whose grid is 5 by 5 with FREE at
\* the centre and, in the other 24 cells, 24 distinct words of the list none
\* of which is FREE, and whose marks are true at the centre only; with fewer
\* unique words it throws and there is no card.
C26_CardShape ==
  last.op = "generate" =>
    LET words == {trim(last.wordList[i]) : i \in 1..Len(last.wordList)} \ {<<>>}
        unique == {toLowerCase(w) : w \in words}
    IN IF Cardinality(unique) >= 24
       THEN /\ ~last.threw
            /\ card # NoCard
            /\ DOMAIN card.grid = 0..4
            /\ \A r \in 0..4 : DOMAIN card.grid[r] = 0..4
            /\ card.grid[2][2] = FREE
            /\ \A x \in OuterCells :
                 /\ card.grid[x[1]][x[2]] \in words
                 /\ card.grid[x[1]][x[2]] # FREE
            /\ \A x, y \in OuterCells :
                 x # y => card.grid[x[1]][x[2]] # card.grid[y[1]][y[2]]
            /\ \A r \in 0..4, c \in 0..4 : card.marked[r][c] = (r = 2 /\ c = 2)
       ELSE last.threw /\ card = NoCard

\* the patterns of ScanOrder that are marked in full on the card
Complete(n) ==
  {i \in 1..n : \A x \in PatternCells(i) : card.marked[x[1]][x[2]]}

\* C27 as stated: hasWon() is true exactly when one of the twelve lines
\* (five rows, five columns, two diagonals) is marked in full.
C27_WonIffOneOfTwelve ==
  card # NoCard => (hasWon(card) <=> Complete(12) # {})

\* C27: hasWon() is true exactly when one of the thirteen patterns (five
\* rows, five columns, two diagonals, four corners with the centre) is marked
\* in full, and getWinningPattern() returns the first such pattern in the
\* order rows 0..4, columns 0..4, diagonal tl-br, diagonal tr-bl, corners, or
\* null when there is none.
C27_FirstInScanOrder ==
  card # NoCard =>
    LET first == IF Complete(13) = {} THEN NoPattern
                 ELSE ScanOrder[CHOOSE i \in Complete(13) : \A k \in Complete(13) : i <= k]
    IN /\ hasWon(card) <=> Complete(13) # {}
       /\ getWinningPattern(card) = first
       /\ last.op = "hasWon" => last.result = (Complete(13) # {})
       /\ last.op = "getWinningPattern" => last.result = first

\* C27 witness: row 0, column 0 and the corners are all marked in full and
\* the row was reported
C27_RowBeforeColumnAndCorners ==
  /\ card # NoCard
  /\ last.op = "getWinningPattern"
  /\ {1, 6, 13} \subseteq Complete(13)
  /\ last.result = [type |-> "horizontal", row |-> 0]

\* the columns of row 0 marked on the card of the only player of session s
RowZeroMarked(s) ==
  {c \in 0..4 : s.game.cards[s.players[1].id].marked[0][c]}

\* a markWord step of the only player, who has no points yet, in an active
\* round, that marks a cell of row 0 and leaves n cells of that row marked
RowZeroReaches(n) ==
  /\ last'.op = "markWord" /\ ~last'.threw
  /\ Len(session.players) = 1 /\ session'.players = session.players
  /\ getLeaderboard(session)[1].totalPoints = 0
  /\ session.game # NoGame /\ session.game.status = "active"
  /\ session.players[1].id \in DOMAIN session.game.cards
  /\ Cardinality(RowZeroMarked(session)) = n - 1
  /\ Cardinality(RowZeroMarked(session')) = n

\* the result, leaderboard and status the claim names
RowZeroWin ==
  /\ last'.result.success /\ last'.result.bingo /\ last'.result.roundOver
  /\ last'.result.pattern = [type |-> "horizontal", row |-> 0]
  /\ last'.result.winnerName = session.players[1].screenName
  /\ Len(getLeaderboard(session')) = 1
  /\ getLeaderboard(session')[1].playerId = session.players[1].id
  /\ getLeaderboard(session')[1].totalPoints = 100
  /\ getGameStatus(session') = "finished"

JoinIndex(s, p) == CHOOSE i \in 1..Len(s.players) : s.players[i].id = p

\* the points the leaderboard of session s shows for player p
BoardPoints(s, p) ==
  LET lb == getLeaderboard(s)
  IN lb[CHOOSE i \in 1..Len(lb) : lb[i].playerId = p].totalPoints

\* C29: getLeaderboard() holds exactly one entry per joined player and none
\* for anyone else, ordered by totalPoints descending with ties in join
\* order; the points of an entry are cumulative: 0 on joining, 100 more
\* for the winner of each won mark, unchanged by every other step.
C29_LeaderboardOfTheJoined ==
  /\ [](\A lb \in {getLeaderboard(session)} :
          /\ Len(lb) = Len(session.players)
          /\ \A p \in PlayerIds(session) :
               Cardinality({i \in 1..Len(lb) : lb[i].playerId = p}) = 1
          /\ \A i \in 1..Len(lb) : lb[i].playerId \in PlayerIds(session)
          /\ \A i, j \in 1..Len(lb) : i < j =>
               \/ lb[i].totalPoints > lb[j].totalPoints
               \/ /\ lb[i].totalPoints = lb[j].totalPoints
                  /\ JoinIndex(session, lb[i].playerId) < JoinIndex(session, lb[j].playerId))
  /\ [][\A p \in PlayerIds(session') :
          BoardPoints(session', p) =
            (IF p \in PlayerIds(session) THEN BoardPoints(session, p) ELSE 0) +
            (IF last'.op = "markWord" /\ ~last'.threw /\ last'.result.bingo
                /\ last'.result.winnerId = p
             THEN 100 ELSE 0)]_vars

\* C29 witness: the player who joined second has won and heads the
\* leaderboard, above the player who joined first
C29_SecondJoinedOnTop ==
  /\ Len(session.players) = 2
  /\ getLeaderboard(session)[1].playerId = session.players[2].id
  /\ getLeaderboard(session)[1].totalPoints = 100
  /\ getLeaderboard(session)[2].playerId = session.players[1].id
  /\ getLeaderboard(session)[2].totalPoints = 0

OnlyCentreMarked(c) ==
  \A r, k \in 0..4 : c.marked[r][k] <=> (r = 2 /\ k = 2)

\* the identities of the cards game g holds
CardIds(g) == {g.cards[q].id : q \in DOMAIN g.cards}

\* C31: a startNewRound that succeeds starts from status finished, appends
\* the round's winner to the winner history, clears the current winner,
\* raises the round number by one, sets status active, leaves exactly one
\* card per joined player, each with an identity no card had before and
\* only its centre marked, and emits one new_round_started per joined
\* player, in join order, with the new round number; the history then has
\* one entry per completed round, in round order.
C31_NewRoundArchivesAndDeals ==
  [][(last'.op = "startNewRound" /\ ~last'.threw) =>
       /\ session.game # NoGame /\ session.game.status = "finished"
       /\ session'.game.roundWinners =
            Append(session.game.roundWinners, session.game.currentWinner)
       /\ session'.game.currentWinner = NoWinner
       /\ session'.game.currentRound = session.game.currentRound + 1
       /\ session'.game.status = "active"
       /\ session'.players = session.players
       /\ DOMAIN session'.game.cards = PlayerIds(session)
       /\ \A p \in PlayerIds(session) :
            /\ session'.game.cards[p].playerId = p
            /\ session'.game.cards[p].id \notin CardIds(session.game)
            /\ OnlyCentreMarked(session'.game.cards[p])
       /\ Cardinality(CardIds(session'.game)) = Len(session.players)
       /\ Len(last'.events) = Len(session.players)
       /\ \A i \in 1..Len(session.players) :
            /\ last'.events[i].type = "new_round_started"
            /\ last'.events[i].playerId = session.players[i].id
            /\ last'.events[i].roundNumber = session'.game.currentRound
            /\ last'.events[i].playerCard = session'.game.cards[session.players[i].id].id
       /\ Len(session'.game.roundWinners) = session'.game.currentRound - 1
       /\ \A i \in 1..Len(session'.game.roundWinners) :
            session'.game.roundWinners[i].roundNumber = i]_vars

\* C31 witness: the second round has begun for two joined players
C31_SecondRoundForTwo ==
  /\ last.op = "startNewRound" /\ ~last.threw
  /\ Len(session.players) = 2
  /\ Len(last.events) = 2
  /\ session.game.currentRound = 2
  /\ Len(session.game.roundWinners) = 1

\* C32: after every handler turn the pending-join marker is null again,
\* also after a join that addPlayer rejected.
C32_PendingJoinCleared ==
  handlerKind # "none" => handler.pendingJoinSocket = NoSocket

\* C33: after every handler turn the connection -> player and player ->
\* connection maps are inverse to each other, and the players they hold are
\* exactly the players of the session.
C33_MapsMirrorTheSession ==
  handlerKind # "none" =>
    /\ \A i \in 1..Len(handler.socketToPlayer) :
         LET e == handler.socketToPlayer[i]
         IN /\ e.value.playerId \in DOMAIN handler.playerToSocket
            /\ handler.playerToSocket[e.value.playerId] = e.key
    /\ \A q \in DOMAIN handler.playerToSocket :
         /\ MapHas(handler.socketToPlayer, handler.playerToSocket[q])
         /\ MapGet(handler.socketToPlayer, handler.playerToSocket[q]).playerId = q
    /\ DOMAIN handler.playerToSocket =
         (IF handler.session = NoSession THEN {} ELSE PlayerIds(handler.session))

\* whom a broadcast reaches, in order: the open sockets of the joined players
\* and then the admin socket if it is open (unified handler), the relay's
\* broadcast to all players and then the admin socket if it is open
\* (admin-side handler)
Audience ==
  (IF handlerKind = "admin" THEN <<AllPlayers>>
   ELSE SelectSeq([i \in 1..Len(handler.socketToPlayer) |-> handler.socketToPlayer[i].key],
                  LAMBDA w : readyState[w] = "OPEN"))
  \o (IF handler.adminSocket # NoSocket /\ readyState[handler.adminSocket] = "OPEN"
      THEN <<handler.adminSocket>> ELSE <<>>)

\* a handler turn in which the round is won
RoundWonInTurn ==
  /\ handler.session # NoSession /\ handler.session.game # NoGame
  /\ handler.session.game.status = "active"
  /\ handler'.session.game.status = "finished"

\* C34: in the turn of the mark_word that wins the round the handler sends,
\* in this order, player_won, the leaderboard with the winner's 100 points
\* added, and game_status finished, each to every player and the admin,
\* and after these one mark_result with bingo and roundOver, to the
\* connection of the winner and to nobody else.
C34_WinIsBroadcastBeforeTheResult ==
  [][RoundWonInTurn =>
       LET n == Len(Audience)
           winner == handler'.session.game.currentWinner.playerId
           kinds == <<"player_won", "leaderboard", "game_status">>
           result == sent'[3 * n + 1]
       IN /\ Len(sent') = 3 * n + 1
          /\ \A k \in 1..3, i \in 1..n :
               /\ sent'[(k - 1) * n + i].to = Audience[i]
               /\ sent'[(k - 1) * n + i].data.object.type = kinds[k]
          /\ \A i \in 1..n :
               /\ sent'[i].data.object.winnerName = getPlayer(handler.session, winner).screenName
               /\ sent'[i].data.object.roundNumber = handler.session.game.currentRound
               /\ sent'[n + i].data.object.entries = getLeaderboard(handler'.session)
               /\ \E e \in 1..Len(handler.session.players) :
                    /\ sent'[n + i].data.object.entries[e].playerId = winner
                    /\ sent'[n + i].data.object.entries[e].totalPoints =
                         BoardPoints(handler.session, winner) + 100
               /\ sent'[2 * n + i].data.object.status = "finished"
               /\ sent'[2 * n + i].data.object.round = handler.session.game.currentRound
          /\ result.data.object.type = "mark_result"
          /\ result.data.object.success /\ result.data.object.bingo
          /\ result.data.object.roundOver
          /\ MapHas(handler.socketToPlayer, result.to)
          /\ MapGet(handler.socketToPlayer, result.to).playerId = winner]_vars

\* C34 witness: the unified handler has told two joined players and the
\* admin of a win, and the winner of the result
C34_TwoPlayersToldOfTheWin ==
  /\ handlerKind = "unified"
  /\ Len(handler.socketToPlayer) = 2
  /\ Len(sent) = 10
  /\ sent[1].data.object.type = "player_won"
  /\ sent[4].data.object.type = "leaderboard"
  /\ sent[7].data.object.type = "game_status"
  /\ sent[10].data.object.type = "mark_result"
  /\ sent[10].data.object.bingo

\* sequence a is the beginning of sequence b
IsPrefix(a, b) == Len(a) <= Len(b) /\ SubSeq(b, 1, Len(a)) = a

\* C35: once a game exists, no call on the Session lowers the round number,
\* drops an entry of the winner history, or discards a card or a mark of a
\* round in progress; the round number changes only by one, in a
\* startNewRound called after a win.
C35_RoundsOnlyAdvance ==
  [][session.game # NoGame =>
       /\ session'.game # NoGame
       /\ getCurrentRound(session') >= getCurrentRound(session)
       /\ IsPrefix(session.game.roundWinners, session'.game.roundWinners)
       /\ session.game.status = "active" =>
            \A p \in DOMAIN session.game.cards :
              /\ p \in DOMAIN session'.game.cards
              /\ session'.game.cards[p].id = session.game.cards[p].id
              /\ session'.game.cards[p].grid = session.game.cards[p].grid
              /\ \A r, c \in 0..4 :
                   session.game.cards[p].marked[r][c] => session'.game.cards[p].marked[r][c]
       /\ getCurrentRound(session') # getCurrentRound(session) =>
            /\ last'.op = "startNewRound"
            /\ session.game.status = "finished"
            /\ getCurrentRound(session') = getCurrentRound(session) + 1]_vars

\* C36: an upstream, player_connected, player_disconnected or player_roster
\* envelope is sent only to the admin socket that has registered with the
\* secret.
C36_PlayerTrafficToRegisteredAdmin ==
  handlerKind = "relay" =>
    \A i \in 1..Len(sent) :
      (/\ sent[i].to \in AdminSockets
       /\ sent[i].data.object.envelope \in
            {"upstream", "player_connected", "player_disconnected", "player_roster"})
      => /\ relay.adminWs = sent[i].to
         /\ relay.adminRegistered


\* the player who joined over relay socket ws is in the admin's maps
JoinedOver(ws) ==
  /\ listeners[ws].on = "player"
  /\ MapHas(handler.socketToPlayer, listeners[ws].connectionId)

\* C37: in relay mode every joined player whose relay socket has closed is
\* eventually removed from the admin's Session, also when the close happens
\* while the admin is disconnected from the relay and registers again later
C37_ClosedPlayersLeave ==
  \A ws \in PlayerSockets :
    (readyState[ws] = "CLOSED" /\ JoinedOver(ws)) ~> ~JoinedOver(ws)

\* the unified handler has a session and the socket that created it has closed
AdminGone ==
  /\ handlerKind = "unified"
  /\ handler.session # NoSession
  /\ handler.adminSocket = NoSocket

\* the answer socket ws gets to a start command that is refused
OnlyAdminCan(ws, raw) ==
  send(readyState, ws, ErrorEvent(IF raw.type = "start_game"
                                  THEN "Only admin can start the game"
                                  ELSE "Only admin can start a new round"))

\* C38: in the unified handler, once the socket that created the session has
\* closed, every start_game and start_new_round of any socket is answered
\* with an error and changes nothing, no command makes another socket the
\* admin, and no game or round is started
C38_ClosedAdminIsNeverReplaced ==
  /\ [](AdminGone =>
          \A ws \in Sockets, raw \in StartRaws, seeds \in DealSeeds :
            readyState[ws] = "OPEN" =>
              \E o \in {handleMessage(handler, readyState, ws, raw, seeds, uuidCount)} :
                o.h = handler /\ o.sent = OnlyAdminCan(ws, raw))
  /\ [][AdminGone =>
          /\ handler'.adminSocket = NoSocket
          /\ getCurrentRound(handler'.session) = getCurrentRound(handler.session)
          /\ (handler'.session.game = NoGame) = (handler.session.game = NoGame)
          /\ getGameStatus(handler'.session) = "active"
                => getGameStatus(handler.session) = "active"]_vars

\* the admin started a game and closed, and another socket's start_new_round
\* was refused
C38_StartRefusedAfterAdminLeft ==
  /\ AdminGone
  /\ handler.session.game # NoGame
  /\ \E ws \in Sockets :
       /\ readyState[ws] = "OPEN"
       /\ sent = OnlyAdminCan(ws, Raw("start_new_round", FALSE, <<>>))

\* C39: after removePlayer(p), Session.markWord(p, w) returns success false,
\* does not set the status to finished and emits no player_won
C39_RemovedPlayerCannotMark ==
  [][(/\ last'.op = "markWord"
      /\ last'.playerId \notin PlayerIds(session)
      /\ ~last'.threw)
       => /\ ~last'.result.success
          /\ getGameStatus(session') = "finished" => getGameStatus(session) = "finished"
          /\ \A i \in 1..Len(last'.events) : last'.events[i].type # "player_won"]_vars

\* C40: under every interleaving of connect(), disconnect() and socket
\* events, an event of a superseded socket (a close or a message of a socket
\* that is not the current one) does not change the status, does not clear
\* the current socket and schedules no reconnect
C40_SupersededSocketIsIgnored ==
  [][(/\ last'.op \in {"close", "message", "admin_registered"}
      /\ client.ws # NoSocket
      /\ last'.ws # client.ws)
       => /\ client'.status = client.status
          /\ client'.ws = client.ws
          /\ client'.timers = client.timers]_vars
====
